---- MODULE Spec2Model ----
(***************************************************************************)
(* WriteWise (khepery/writewise): the analysis core                        *)
(* (src/writewise/core/grammar_checker.py) and the entry points that own   *)
(* a GrammarChecker (src/writewise/cli.py, src/writewise/api/server.py,    *)
(* src/examples/usage_examples.py).                                        *)
(*                                                                         *)
(* Conventions.                                                            *)
(*  - A Python str is a sequence of one-character strings.  Sequences are  *)
(*    1-based here; every offset stored in a finding is the 0-based Python *)
(*    offset (index - 1).                                                  *)
(*  - A score is a Python float and is computed as one: in IEEE-754       *)
(*    doubles, every subtraction and product rounded.  A Flesch Reading    *)
(*    Ease f is only compared with 30 and 90 and is held as 10*f.          *)
(*  - A Python call either returns or raises: operators that can raise     *)
(*    return a record with field exc ("None" when the call returned).      *)
(***************************************************************************)
EXTENDS Integers, Sequences, FiniteSets, TLC

VARIABLES
    checker,    \* a GrammarChecker that outlives a call: server.py:77, the
                \* module-level `checker` global; in SessionSpec, the one
                \* checker that every call is made on
    op,         \* the entry point or core call that ran last, with what it did
    history     \* SessionSpec: what analyze answered the first time, per
                \* text and capability responses

vars == <<checker, op, history>>

(***************************************************************************)
(* Characters                                                              *)
(***************************************************************************)
\* A Python str is a sequence of one-character strings.  The characters
\* are those of Latin-1 (U+0000 to U+00FF), the ones a string of this
\* module can hold; on them str.lower() and re.IGNORECASE agree.
\* the letters that str.lower() leaves as they are
LowerLetters ==
    {"a","b","c","d","e","f","g","h","i","j","k","l","m","n","o","p","q",
     "r","s","t","u","v","w","x","y","z","ª","µ","º","ß","à","á","â","ã",
     "ä","å","æ","ç","è","é","ê","ë","ì","í","î","ï","ð","ñ","ò","ó","ô",
     "õ","ö","ø","ù","ú","û","ü","ý","þ","ÿ"}

\* the letters that str.lower() changes, with what it makes of them
UpperToLower ==
    [c \in {"A","B","C","D","E","F","G","H","I","J","K","L","M","N","O","P",
            "Q","R","S","T","U","V","W","X","Y","Z","À","Á","Â","Ã","Ä","Å",
            "Æ","Ç","È","É","Ê","Ë","Ì","Í","Î","Ï","Ð","Ñ","Ò","Ó","Ô","Õ",
            "Ö","Ø","Ù","Ú","Û","Ü","Ý","Þ"} |->
        CASE c = "A" -> "a" [] c = "B" -> "b" [] c = "C" -> "c"
          [] c = "D" -> "d" [] c = "E" -> "e" [] c = "F" -> "f"
          [] c = "G" -> "g" [] c = "H" -> "h" [] c = "I" -> "i"
          [] c = "J" -> "j" [] c = "K" -> "k" [] c = "L" -> "l"
          [] c = "M" -> "m" [] c = "N" -> "n" [] c = "O" -> "o"
          [] c = "P" -> "p" [] c = "Q" -> "q" [] c = "R" -> "r"
          [] c = "S" -> "s" [] c = "T" -> "t" [] c = "U" -> "u"
          [] c = "V" -> "v" [] c = "W" -> "w" [] c = "X" -> "x"
          [] c = "Y" -> "y" [] c = "Z" -> "z" [] c = "À" -> "à"
          [] c = "Á" -> "á" [] c = "Â" -> "â" [] c = "Ã" -> "ã"
          [] c = "Ä" -> "ä" [] c = "Å" -> "å" [] c = "Æ" -> "æ"
          [] c = "Ç" -> "ç" [] c = "È" -> "è" [] c = "É" -> "é"
          [] c = "Ê" -> "ê" [] c = "Ë" -> "ë" [] c = "Ì" -> "ì"
          [] c = "Í" -> "í" [] c = "Î" -> "î" [] c = "Ï" -> "ï"
          [] c = "Ð" -> "ð" [] c = "Ñ" -> "ñ" [] c = "Ò" -> "ò"
          [] c = "Ó" -> "ó" [] c = "Ô" -> "ô" [] c = "Õ" -> "õ"
          [] c = "Ö" -> "ö" [] c = "Ø" -> "ø" [] c = "Ù" -> "ù"
          [] c = "Ú" -> "ú" [] c = "Û" -> "û" [] c = "Ü" -> "ü"
          [] c = "Ý" -> "ý" [] c = "Þ" -> "þ"]

UpperLetters == DOMAIN UpperToLower

DigitChars == {"0","1","2","3","4","5","6","7","8","9"}

\* the other numeric characters that str.isalnum(), and so \w, accepts
NumericChars == {"²","³","¹","¼","½","¾"}

\* str.isspace(), as used by str.split(), str.strip(), str.rstrip() and by
\* the regex class \s: tab, line feed, vertical tab, form feed, carriage
\* return, the separators U+001C to U+001F, space, U+0085 and U+00A0
IsSpace(c) ==
    c \in {"\t", "\n", "", "\f", "\r", "", "", "", "", " ", "", " "}

\* the regex class \w of a str pattern: str.isalnum() or "_"
WordChars ==
    LowerLetters \cup UpperLetters \cup DigitChars \cup NumericChars \cup {"_"}

IsWordChar(c) == c \in WordChars

\* one character under str.lower() / re.IGNORECASE
LowerChar(c) == IF c \in UpperLetters THEN UpperToLower[c] ELSE c

lower(s) == [i \in 1..Len(s) |-> LowerChar(s[i])]

(***************************************************************************)
(* str primitives                                                          *)
(***************************************************************************)
\* the least element of a non-empty set of integers
Least(S) == CHOOSE i \in S : \A k \in S : i <= k

\* first index >= i that is past the end or holds a non-space
SpaceEnd(s, i) ==
    CHOOSE j \in i..(Len(s) + 1) :
        /\ \A k \in i..(j - 1) : IsSpace(s[k])
        /\ (j = Len(s) + 1 \/ ~IsSpace(s[j]))

\* first index >= i that is past the end or holds a space
TokenEnd(s, i) ==
    CHOOSE j \in i..(Len(s) + 1) :
        /\ \A k \in i..(j - 1) : ~IsSpace(s[k])
        /\ (j = Len(s) + 1 \/ IsSpace(s[j]))

\* first index >= i that is past the end or holds a non-word character
WordEnd(s, i) ==
    CHOOSE j \in i..(Len(s) + 1) :
        /\ \A k \in i..(j - 1) : IsWordChar(s[k])
        /\ (j = Len(s) + 1 \/ ~IsWordChar(s[j]))

\* A faulty variant of split: text.split(" "), which cuts at every single space and
\* keeps the empty strings between them
RECURSIVE split_on_space_from(_, _)
split_on_space_from(s, i) ==
    LET cuts == {j \in i..Len(s) : s[j] = " "} IN
    IF cuts = {} THEN << SubSeq(s, i, Len(s)) >>
    ELSE << SubSeq(s, i, Least(cuts) - 1) >> \o split_on_space_from(s, Least(cuts) + 1)

split_on_space(s) == split_on_space_from(s, 1)

RECURSIVE split_from(_, _)
split_from(s, i) ==
    LET j == SpaceEnd(s, i) IN
    IF j > Len(s) THEN << >>
    ELSE LET e == TokenEnd(s, j) IN << SubSeq(s, j, e - 1) >> \o split_from(s, e)

\* str.split(): the maximal runs of non-space characters
split(s) == split_from(s, 1)

\* str.rstrip()
rstrip(s) ==
    LET keep == {i \in 1..Len(s) : ~IsSpace(s[i])} IN
    IF keep = {} THEN << >>
    ELSE SubSeq(s, 1, CHOOSE i \in keep : \A k \in keep : k <= i)

\* str.strip()
strip(s) ==
    LET keep == {i \in 1..Len(s) : ~IsSpace(s[i])} IN
    IF keep = {} THEN << >>
    ELSE SubSeq(s, CHOOSE i \in keep : \A k \in keep : i <= k,
                   CHOOSE i \in keep : \A k \in keep : k <= i)

\* sub occurs in s at 1-based index i
OccursAt(s, sub, i) ==
    /\ i >= 1
    /\ i + Len(sub) - 1 <= Len(s)
    /\ SubSeq(s, i, i + Len(sub) - 1) = sub

\* str.find(sub, start): the lowest 0-based offset >= start of sub, else -1
find(s, sub, start) ==
    LET hits == {i \in (start + 1)..(Len(s) + 1) : OccursAt(s, sub, i)} IN
    IF hits = {} THEN -1 ELSE Least(hits) - 1

\* the element of a one-element set; Value({e(x) : x \in {v}}) is e with x
\* bound to the value of v, computed once
Value(S) == CHOOSE v \in S : TRUE

Max(a, b) == IF a >= b THEN a ELSE b
Min(a, b) == IF a <= b THEN a ELSE b

\* s[from:to] for 0 <= from, as Python clips a slice to the sequence
Slice(s, from, to) ==
    LET a == IF from <= Len(s) THEN from ELSE Len(s)
        b == IF to <= Len(s) THEN to ELSE Len(s)
    IN SubSeq(s, a + 1, b)

\* the regex assertion \b at 1-based index i (between s[i-1] and s[i])
WordBoundary(s, i) ==
    LET before == i > 1 /\ i - 1 <= Len(s) /\ IsWordChar(s[i - 1])
        after  == i >= 1 /\ i <= Len(s) /\ IsWordChar(s[i])
    IN before # after

\* re.finditer over non-empty matches: ends[i] is 0 when the pattern does
\* not match at index i, else the index just past the match starting at i.
\* The scan takes the leftmost match at or after pos and resumes where that
\* match ended.
RECURSIVE finditer(_, _)
finditer(ends, pos) ==
    LET hits == {i \in pos..Len(ends) : ends[i] # 0} IN
    IF hits = {} THEN << >>
    ELSE LET i == Least(hits) IN
         << [start |-> i, end |-> ends[i]] >> \o finditer(ends, ends[i])

(***************************************************************************)
(* Tokenization capability: nltk.sent_tokenize (Punkt).  External to the   *)
(* repository; modelled by its contract (spec section 6) and the shape of  *)
(* Punkt's output: a sentence ends at a terminator that is followed by     *)
(* whitespace and another token, the next sentence starts at that token,   *)
(* the first sentence keeps leading whitespace, the last one is cut at     *)
(* text.rstrip(), and an empty last sentence is dropped.                   *)
(***************************************************************************)
SentEndChars == {".", "?", "!"}

\* a terminator at index p that is followed by whitespace and a next token
IsSentBreak(s, p) ==
    /\ s[p] \in SentEndChars
    /\ p < Len(s)
    /\ IsSpace(s[p + 1])
    /\ SpaceEnd(s, p + 1) <= Len(s)

RECURSIVE sent_from(_, _)
sent_from(s, last_break) ==
    LET breaks == {p \in last_break..Len(s) : IsSentBreak(s, p)} IN
    IF breaks = {}
    THEN LET stop == Len(rstrip(s)) IN
         IF stop >= last_break THEN << SubSeq(s, last_break, stop) >> ELSE << >>
    ELSE LET p == Least(breaks) IN
         << SubSeq(s, last_break, p) >> \o sent_from(s, SpaceEnd(s, p + 1))

sent_tokenize(s) == sent_from(s, 1)

(***************************************************************************)
(* Style detectors (grammar_checker.py:156-262)                            *)
(***************************************************************************)
\* grammar_checker.py:181
MsgPassive ==
    <<"C","o","n","s","i","d","e","r"," ","u","s","i","n","g"," ","a","c",
      "t","i","v","e"," ","v","o","i","c","e"," ","f","o","r"," ","m","o",
      "r","e"," ","d","i","r","e","c","t"," ","w","r","i","t","i","n","g">>

\* grammar_checker.py:186
SuggestPassive ==
    <<"C","o","n","s","i","d","e","r"," ","r","e","w","r","i","t","i","n",
      "g"," ","i","n"," ","a","c","t","i","v","e"," ","v","o","i","c","e">>

\* grammar_checker.py:210
MsgWordyPrefix ==
    <<"C","o","n","s","i","d","e","r"," ","s","i","m","p","l","i","f","y",
      "i","n","g"," ","t","o"," ","'">>

\* grammar_checker.py:231
MsgLengthPrefix ==
    <<"T","h","i","s"," ","s","e","n","t","e","n","c","e"," ","h","a","s",
      " ">>

\* grammar_checker.py:231
MsgLengthSuffix ==
    <<" ","w","o","r","d","s","."," ","C","o","n","s","i","d","e","r"," ",
      "b","r","e","a","k","i","n","g"," ","i","t"," ","i","n","t","o"," ",
      "s","h","o","r","t","e","r"," ","s","e","n","t","e","n","c","e","s",
      " ","f","o","r"," ","b","e","t","t","e","r"," ","r","e","a","d","a",
      "b","i","l","i","t","y",".">>

\* grammar_checker.py:236
SuggestLength ==
    <<"B","r","e","a","k"," ","i","n","t","o"," ","s","h","o","r","t","e",
      "r"," ","s","e","n","t","e","n","c","e","s">>

\* grammar_checker.py:253
MsgRepeatPrefix ==
    <<"P","o","s","s","i","b","l","e"," ","u","n","i","n","t","e","n","t",
      "i","o","n","a","l"," ","w","o","r","d"," ","r","e","p","e","t","i",
      "t","i","o","n",":"," ","'">>

\* grammar_checker.py:194-204, in the dict's insertion order; each pattern is
\* \b<phrase>\b
wordy_phrases == <<
    [phrase |->
        <<"a","t"," ","t","h","i","s"," ","p","o","i","n","t"," ","i","n",
          " ","t","i","m","e">>,
     replacement |-> <<"n","o","w">>],
    [phrase |->
        <<"d","u","e"," ","t","o"," ","t","h","e"," ","f","a","c","t"," ",
          "t","h","a","t">>,
     replacement |-> <<"b","e","c","a","u","s","e">>],
    [phrase |->
        <<"i","n"," ","o","r","d","e","r"," ","t","o">>,
     replacement |-> <<"t","o">>],
    [phrase |->
        <<"f","o","r"," ","t","h","e"," ","p","u","r","p","o","s","e"," ",
          "o","f">>,
     replacement |-> <<"t","o">>],
    [phrase |->
        <<"i","n"," ","t","h","e"," ","e","v","e","n","t"," ","t","h","a",
          "t">>,
     replacement |-> <<"i","f">>],
    [phrase |->
        <<"w","i","t","h"," ","r","e","g","a","r","d"," ","t","o">>,
     replacement |-> <<"a","b","o","u","t">>],
    [phrase |->
        <<"i","n"," ","s","p","i","t","e"," ","o","f"," ","t","h","e"," ",
          "f","a","c","t"," ","t","h","a","t">>,
     replacement |-> <<"a","l","t","h","o","u","g","h">>],
    [phrase |->
        <<"a"," ","n","u","m","b","e","r"," ","o","f">>,
     replacement |-> <<"m","a","n","y">>],
    [phrase |->
        <<"p","r","i","o","r"," ","t","o">>,
     replacement |-> <<"b","e","f","o","r","e">>]
    >>

StyleSuggestion(message, category, offset, length, original, suggestion) ==
    [message |-> message, category |-> category, offset |-> offset,
     length |-> length, original |-> original, suggestion |-> suggestion]

\* the alternation (am|is|are|was|were|be|been|being) of both patterns
BeVerbs ==
    { <<"a","m">>, <<"i","s">>, <<"a","r","e">>, <<"w","a","s">>,
      <<"w","e","r","e">>, <<"b","e">>, <<"b","e","e","n">>,
      <<"b","e","i","n","g">> }

\* passive_voice_patterns (grammar_checker.py:84-87), by their suffix:
\* \b(am|...|being)\s+\w+ed\b  and  \b(am|...|being)\s+\w+en\b
passive_voice_patterns == << <<"e","d">>, <<"e","n">> >>

\* A faulty variant of PassiveEnd: the be-verb compared without re.IGNORECASE
PassiveEnd_cased(text, i, suffix) ==
    IF ~(IsWordChar(text[i]) /\ WordBoundary(text, i)) THEN 0
    ELSE LET a == WordEnd(text, i)
         IN IF \/ SubSeq(text, i, a - 1) \notin BeVerbs
               \/ a > Len(text)
               \/ ~IsSpace(text[a])
            THEN 0
            ELSE LET w == SpaceEnd(text, a)
                     e == WordEnd(text, w)
                 IN IF /\ w <= Len(text)
                       /\ e - w >= Len(suffix) + 1
                       /\ lower(SubSeq(text, e - Len(suffix), e - 1)) = suffix
                    THEN e ELSE 0

\* Where \b(am|...|being)\s+\w+<suffix>\b, under re.IGNORECASE, matches at
\* index i: 0 when it does not, else the index just past the match.  \b puts
\* the be-verb at a word start and \s+ after it makes it a whole word; \s+
\* must be followed by a word character, so it takes the whole whitespace
\* run; \w+<suffix>\b ends at a word boundary after a word character, so the
\* match runs to the end of the following word, which is at least one
\* character plus the suffix.
PassiveEnd(text, i, suffix) ==
    IF ~(IsWordChar(text[i]) /\ WordBoundary(text, i)) THEN 0
    ELSE LET a == WordEnd(text, i)          \* just past the first word
         IN IF \/ lower(SubSeq(text, i, a - 1)) \notin BeVerbs
               \/ a > Len(text)
               \/ ~IsSpace(text[a])
            THEN 0
            ELSE LET w == SpaceEnd(text, a)  \* start of the next word
                     e == WordEnd(text, w)
                 IN IF /\ w <= Len(text)
                       /\ e - w >= Len(suffix) + 1
                       /\ lower(SubSeq(text, e - Len(suffix), e - 1)) = suffix
                    THEN e ELSE 0

\* grammar_checker.py:178-188, the loop over self.passive_voice_patterns
\* from its k-th pattern on
RECURSIVE passive_from(_, _, _)
passive_from(self, text, k) ==
    IF k > Len(self.passive_voice_patterns) THEN << >>
    ELSE LET ends == [i \in 1..Len(text) |->
                          PassiveEnd(text, i, self.passive_voice_patterns[k])]
         IN Value({ [n \in 1..Len(ms) |->
                       StyleSuggestion(MsgPassive, "passive_voice",
                                       ms[n].start - 1, ms[n].end - ms[n].start,
                                       SubSeq(text, ms[n].start, ms[n].end - 1),
                                       SuggestPassive)]
                    : ms \in {finditer(ends, 1)} })
            \o passive_from(self, text, k + 1)

_check_passive_voice(self, text) == passive_from(self, text, 1)

\* A faulty variant of PhraseEnd: the closing \b left out
PhraseEnd_open(text, i, phrase) ==
    LET e == i + Len(phrase) IN
    IF /\ e - 1 <= Len(text)
       /\ lower(SubSeq(text, i, e - 1)) = phrase
       /\ WordBoundary(text, i)
    THEN e ELSE 0

\* Where \b<phrase>\b, under re.IGNORECASE, matches at index i.
PhraseEnd(text, i, phrase) ==
    LET e == i + Len(phrase) IN
    IF /\ e - 1 <= Len(text)
       /\ lower(SubSeq(text, i, e - 1)) = phrase
       /\ WordBoundary(text, i)
       /\ WordBoundary(text, e)
    THEN e ELSE 0

RECURSIVE wordy_from(_, _)
wordy_from(text, k) ==
    IF k > Len(wordy_phrases) THEN << >>
    ELSE LET replacement == wordy_phrases[k].replacement
             ends == [i \in 1..Len(text) |->
                          PhraseEnd(text, i, wordy_phrases[k].phrase)]
         IN Value({ [n \in 1..Len(ms) |->
                       StyleSuggestion(MsgWordyPrefix \o replacement \o <<"'">>,
                                       "wordiness",
                                       ms[n].start - 1, ms[n].end - ms[n].start,
                                       SubSeq(text, ms[n].start, ms[n].end - 1),
                                       replacement)]
                    : ms \in {finditer(ends, 1)} })
            \o wordy_from(text, k + 1)

_check_wordy_phrases(text) == wordy_from(text, 1)

\* str(n) for n >= 0, as the f-string of grammar_checker.py:231 formats it
DigitOf(d) ==
    CASE d = 0 -> "0" [] d = 1 -> "1" [] d = 2 -> "2" [] d = 3 -> "3"
      [] d = 4 -> "4" [] d = 5 -> "5" [] d = 6 -> "6" [] d = 7 -> "7"
      [] d = 8 -> "8" [] d = 9 -> "9"

RECURSIVE str(_)
str(n) == IF n < 10 THEN << DigitOf(n) >> ELSE str(n \div 10) \o << DigitOf(n % 10) >>

\* grammar_checker.py:229: the threshold of `word_count > 30`
LongSentenceWords == 30

\* grammar_checker.py:235: the cut of `original`
OriginalCut == 50

\* A faulty variant of length_from: the threshold test made inclusive
RECURSIVE length_from_inclusive(_, _, _, _)
length_from_inclusive(text, sentences, k, offset) ==
    IF k > Len(sentences) THEN << >>
    ELSE LET sentence   == sentences[k]
             word_count == Len(split(sentence))
             found ==
               IF word_count >= LongSentenceWords
               THEN << StyleSuggestion(
                          MsgLengthPrefix \o str(word_count) \o MsgLengthSuffix,
                          "sentence_length",
                          find(text, sentence, offset),
                          Len(sentence),
                          IF Len(sentence) > OriginalCut
                          THEN Slice(sentence, 0, OriginalCut) \o <<".",".",".">>
                          ELSE sentence,
                          SuggestLength) >>
               ELSE << >>
         IN found \o length_from_inclusive(text, sentences, k + 1, offset + Len(sentence))

RECURSIVE length_from(_, _, _, _)
length_from(text, sentences, k, offset) ==
    IF k > Len(sentences) THEN << >>
    ELSE LET sentence   == sentences[k]
             word_count == Len(split(sentence))
             found ==
               IF word_count > LongSentenceWords
               THEN << StyleSuggestion(
                          MsgLengthPrefix \o str(word_count) \o MsgLengthSuffix,
                          "sentence_length",
                          find(text, sentence, offset),
                          Len(sentence),
                          IF Len(sentence) > OriginalCut
                          THEN Slice(sentence, 0, OriginalCut) \o <<".",".",".">>
                          ELSE sentence,
                          SuggestLength) >>
               ELSE << >>
         IN found \o length_from(text, sentences, k + 1, offset + Len(sentence))

_check_sentence_length(text) ==
    Value({ length_from(text, sentences, 1, 0) : sentences \in {sent_tokenize(text)} })

\* grammar_checker.py:251
RepeatAllowed ==
    { <<"v","e","r","y">>, <<"f","a","r">>, <<"l","o","n","g">>,
      <<"m","a","n","y">> }

\* Where \b(\w+)\s+\1\b, under re.IGNORECASE, matches at index i.  \b puts
\* the group at a word start; \s+ must follow the group, so the group is the
\* whole word; \s+ must be followed by the back-reference, which starts with
\* a word character, so \s+ is the whole whitespace run; the final \b makes
\* the repeated text a whole word.
RepeatEnd(text, i) ==
    IF ~(IsWordChar(text[i]) /\ WordBoundary(text, i)) THEN 0
    ELSE LET a == WordEnd(text, i)          \* just past group 1
             w == IF a <= Len(text) THEN SpaceEnd(text, a) ELSE a
             e == w + (a - i)
         IN IF /\ a <= Len(text)
               /\ IsSpace(text[a])
               /\ e - 1 <= Len(text)
               /\ lower(SubSeq(text, w, e - 1)) = lower(SubSeq(text, i, a - 1))
               /\ WordBoundary(text, e)
            THEN e ELSE 0

\* group 1 of a match that starts at index i
RepeatGroup(text, i) == SubSeq(text, i, WordEnd(text, i) - 1)

\* A faulty variant of repeat_from: the allow-list test left out
RECURSIVE repeat_from_unfiltered(_, _, _)
repeat_from_unfiltered(text, ms, n) ==
    IF n > Len(ms) THEN << >>
    ELSE LET group == SubSeq(text, ms[n].start, ms[n].end - 1)
         IN << StyleSuggestion(MsgRepeatPrefix \o group \o <<"'">>,
                               "repetition",
                               ms[n].start - 1, ms[n].end - ms[n].start,
                               group,
                               RepeatGroup(text, ms[n].start)) >>
            \o repeat_from_unfiltered(text, ms, n + 1)

RECURSIVE repeat_from(_, _, _)
repeat_from(text, ms, n) ==
    IF n > Len(ms) THEN << >>
    ELSE LET group == SubSeq(text, ms[n].start, ms[n].end - 1)
             word  == lower(RepeatGroup(text, ms[n].start))
             found ==
               IF word \notin RepeatAllowed
               THEN << StyleSuggestion(MsgRepeatPrefix \o group \o <<"'">>,
                                       "repetition",
                                       ms[n].start - 1, ms[n].end - ms[n].start,
                                       group,
                                       RepeatGroup(text, ms[n].start)) >>
               ELSE << >>
         IN found \o repeat_from(text, ms, n + 1)

_check_repeated_words(text) ==
    Value({ repeat_from(text, ms, 1)
            : ms \in {finditer([i \in 1..Len(text) |-> RepeatEnd(text, i)], 1)} })

\* A faulty variant of _analyze_style: the findings merged by text position
RECURSIVE by_offset(_)
by_offset(suggestions) ==
    IF suggestions = << >> THEN << >>
    ELSE LET first == Least({n \in DOMAIN suggestions :
                               \A k \in DOMAIN suggestions :
                                  suggestions[n].offset <= suggestions[k].offset})
         IN << suggestions[first] >>
            \o by_offset([n \in 1..(Len(suggestions) - 1) |->
                            suggestions[IF n < first THEN n ELSE n + 1]])

_analyze_style_sorted(self, text) ==
    by_offset(_check_passive_voice(self, text)
                 \o _check_wordy_phrases(text)
                 \o _check_sentence_length(text)
                 \o _check_repeated_words(text))

_analyze_style(self, text) ==
    _check_passive_voice(self, text)
        \o _check_wordy_phrases(text)
        \o _check_sentence_length(text)
        \o _check_repeated_words(text)

(***************************************************************************)
(* Capability calls.  tool.check, textstat and nltk are external; a run    *)
(* records every call it makes on them, and on the checker, in order.      *)
(***************************************************************************)
Call(fn, arg) == [fn |-> fn, arg |-> arg]

\* what LanguageTool.check(text) does on one call: raise, or return matches
Raises == [exc |-> "ToolError", matches |-> << >>]
Returns(matches) == [exc |-> "None", matches |-> matches]

\* a match as language_tool_python reports it
Match(offset, errorLength, category, replacements) ==
    [offset |-> offset, errorLength |-> errorLength, category |-> category,
     message |-> "message", ruleId |-> "RULE", replacements |-> replacements]

\* language_tool_python.utils.correct(text, matches): every match that has
\* replacements and whose span still holds the flagged text is replaced by
\* its first replacement, offsets shifted by the edits made so far
RECURSIVE correct_from(_, _, _, _, _)
correct_from(text, ltext, matches, n, correct_offset) ==
    IF n > Len(matches) THEN ltext
    ELSE LET m       == matches[n]
             frompos == correct_offset + m.offset
             topos   == frompos + m.errorLength
             error   == Slice(text, m.offset, m.offset + m.errorLength)
         IN IF m.replacements = << >>
            THEN correct_from(text, ltext, matches, n + 1, correct_offset)
            ELSE IF Slice(ltext, frompos, topos) # error
            THEN correct_from(text, ltext, matches, n + 1, correct_offset)
            ELSE correct_from(
                     text,
                     Slice(ltext, 0, frompos) \o m.replacements[1]
                         \o Slice(ltext, Max(frompos, topos), Len(ltext)),
                     matches, n + 1,
                     correct_offset + Len(m.replacements[1]) - Len(error))

correct(text, matches) == correct_from(text, text, matches, 1, 0)

(***************************************************************************)
(* GrammarChecker (grammar_checker.py:75-319)                              *)
(***************************************************************************)
\* grammar_checker.py:135-136: the context window on either side
ContextWindow == 20

\* grammar_checker.py:149: replacements[:3]
TopSuggestions == 3

\* GrammarChecker.__init__(self): the signature takes no argument besides
\* self, so a call with keyword arguments raises TypeError before the body
\* runs; otherwise the object holds an open LanguageTool (line 83) and
\* the two passive-voice patterns (lines 84-87), its only attributes.
GrammarChecker(kwargs) ==
    IF kwargs # {}
    THEN [exc |-> "TypeError", self |-> [tool |-> "none"], calls |-> << >>]
    ELSE [exc |-> "None",
          self |-> [tool |-> "open",
                     passive_voice_patterns |-> passive_voice_patterns],
          calls |-> << Call("LanguageTool", <<"e","n","-","U","S">>) >>]

\* tests/test_grammar_checker.py:9-11: the checker the fixture constructs
fixture == GrammarChecker({}).self

GrammarIssue(text, match) ==
    LET start == Max(0, match.offset - ContextWindow)
        end   == Min(Len(text), match.offset + match.errorLength + ContextWindow)
    IN [message     |-> match.message,
        rule_id     |-> match.ruleId,
        category    |-> match.category,
        offset      |-> match.offset,
        length      |-> match.errorLength,
        context     |-> Slice(text, start, end),
        suggestions |-> Slice(match.replacements, 0, TopSuggestions),
        severity    |-> IF match.category \in {"GRAMMAR", "TYPOS"}
                        THEN "error" ELSE "warning"]

\* A faulty variant of _check_grammar: a failure of tool.check is caught and turned
\* into an empty finding list
_check_grammar_swallowing(text, chk) ==
    [exc    |-> "None",
     calls  |-> << Call("tool.check", text) >>,
     issues |-> IF chk.exc # "None" THEN << >>
                ELSE [n \in 1..Len(chk.matches) |-> GrammarIssue(text, chk.matches[n])]]

\* chk is what self.tool.check(text) does on this call
_check_grammar(text, chk) ==
    [exc    |-> chk.exc,
     calls  |-> << Call("tool.check", text) >>,
     issues |-> IF chk.exc # "None" THEN << >>
                ELSE [n \in 1..Len(chk.matches) |-> GrammarIssue(text, chk.matches[n])]]

\* A faulty variant of _calculate_readability: the metrics are taken of a trimmed copy
_calculate_readability_stripped(text, fre) ==
    [calls   |-> << Call("textstat", strip(text)) >>,
     metrics |-> [flesch_reading_ease |-> fre]]

\* fre is what textstat.flesch_reading_ease(text) returns; the seven other
\* metrics are passed through unread by the core and are left out
_calculate_readability(text, fre) ==
    [calls   |-> << Call("textstat", text) >>,
     metrics |-> [flesch_reading_ease |-> fre]]

\* Python floats are IEEE-754 doubles.  Every value the score computation
\* meets on the lists handed to it here (fewer than 60 grammar findings) is
\* a multiple of 2^-54 below 128 in magnitude, and is held exactly: as its
\* sign neg and its magnitude (hi * 2^30 + lo) * 2^-54, with lo < 2^30.
\* An operation computes the exact result and rounds it to 53 significant
\* bits, ties to even, as the hardware does.
MantissaBits == 53
LimbBits == 30

RECURSIVE Pow2(_)
Pow2(n) == IF n = 0 THEN 1 ELSE 2 * Pow2(n - 1)

Limb == Pow2(LimbBits)
HiBits == MantissaBits - LimbBits

\* float(n) of an int n
float(n) ==
    [neg |-> n < 0, hi |-> (IF n < 0 THEN -n ELSE n) * Pow2(HiBits + 1), lo |-> 0]

MagZero == [hi |-> 0, lo |-> 0]

MagOf(x) == [hi |-> x.hi, lo |-> x.lo]

MagLess(a, b) == a.hi < b.hi \/ (a.hi = b.hi /\ a.lo < b.lo)

MagAdd(a, b) ==
    [hi |-> a.hi + b.hi + (a.lo + b.lo) \div Limb, lo |-> (a.lo + b.lo) % Limb]

\* a - b, for b not above a
MagSub(a, b) ==
    IF a.lo >= b.lo
    THEN [hi |-> a.hi - b.hi, lo |-> a.lo - b.lo]
    ELSE [hi |-> a.hi - b.hi - 1, lo |-> a.lo + Limb - b.lo]

\* n * m: twice the product with half of n, and m once more when n is odd
RECURSIVE MagTimes(_, _)
MagTimes(n, m) ==
    IF n = 0 THEN MagZero
    ELSE Value({ IF n % 2 = 0 THEN MagAdd(half, half)
                 ELSE MagAdd(MagAdd(half, half), m)
               : half \in {MagTimes(n \div 2, m)} })

\* 2^23, the least hi of a magnitude that has more than 53 bits
HiLimit == Pow2(HiBits)

\* the weight of the lowest of the 53 leading bits of a magnitude, as a
\* multiple of unit: 2^(bits - 53) for a magnitude of more than 53 bits
RECURSIVE LastPlace(_, _)
LastPlace(hi, unit) ==
    IF hi \div unit < HiLimit THEN unit ELSE LastPlace(hi, 2 * unit)

\* the nearest magnitude of 53 significant bits, ties to the even one
RoundNearestEven(exact) ==
    Value({
      IF m.hi < HiLimit THEN m
      ELSE Value({
             Value({
               IF 2 * rest < unit \/ (2 * rest = unit /\ ((m.lo - rest) \div unit) % 2 = 0)
               THEN [hi |-> m.hi, lo |-> m.lo - rest]
               ELSE IF m.lo - rest + unit = Limb
               THEN [hi |-> m.hi + 1, lo |-> 0]
               ELSE [hi |-> m.hi, lo |-> m.lo - rest + unit]
             : rest \in {m.lo % unit} })
           : unit \in {LastPlace(m.hi, 1)} })
    : m \in {exact} })

\* x + y of two floats
fadd(x, y) ==
    Value({
      IF a.neg = b.neg
      THEN [neg |-> a.neg] @@ RoundNearestEven(MagAdd(MagOf(a), MagOf(b)))
      ELSE IF MagLess(MagOf(a), MagOf(b))
      THEN [neg |-> b.neg] @@ RoundNearestEven(MagSub(MagOf(b), MagOf(a)))
      ELSE [neg |-> a.neg /\ MagLess(MagOf(b), MagOf(a))]
           @@ RoundNearestEven(MagSub(MagOf(a), MagOf(b)))
    : a \in {x}, b \in {y} })

\* x - y of two floats
fsub(x, y) == fadd(x, [y EXCEPT !.neg = ~y.neg])

\* n * x of an int n >= 0 and a float x >= 0: float(n) * x, rounded once
fmul(n, x) == [neg |-> FALSE] @@ RoundNearestEven(MagTimes(n, MagOf(x)))

\* x < y of two floats
flt(x, y) ==
    \E a \in {x}, b \in {y} :
       IF a.neg # b.neg
       THEN a.neg /\ (MagOf(a) # MagZero \/ MagOf(b) # MagZero)
       ELSE IF a.neg THEN MagLess(MagOf(b), MagOf(a))
       ELSE MagLess(MagOf(a), MagOf(b))

\* the builtins min(x, y) and max(x, y): the first argument unless the
\* second is smaller (larger)
fmin(x, y) == IF flt(y, x) THEN y ELSE x

fmax(x, y) == IF flt(x, y) THEN y ELSE x

\* the literals 0.5 and 0.3
Half == [neg |-> FALSE, hi |-> HiLimit, lo |-> 0]
ThreeTenths == [neg |-> FALSE, hi |-> 5033164, lo |-> 858993459]

\* grammar_checker.py:284-302.  The Flesch Reading Ease is only ever
\* compared with 30 and 90 and is held in tenths (29.9 is 299).
ScoreStart == float(100)
ErrorPenalty == float(2)
WarningPenalty == Half
StylePenalty == ThreeTenths
HardToReadBelow == 300
HardToReadPenalty == float(5)
TooSimpleAbove == 900
TooSimplePenalty == float(2)
ScoreFloor == float(0)
ScoreCeiling == float(100)

\* A faulty variant of deduct_issue: the two branches of the severity test swapped
deduct_issue_swapped(score, issue) ==
    IF issue.severity = "error"
    THEN fsub(score, WarningPenalty)
    ELSE fsub(score, ErrorPenalty)

\* grammar_checker.py:288-291, the body of the loop run for one issue
deduct_issue(score, issue) ==
    IF issue.severity = "error"
    THEN fsub(score, ErrorPenalty)
    ELSE fsub(score, WarningPenalty)

\* grammar_checker.py:287-291, the loop run over the issues first..last in
\* their order: over the first half of them, then over the rest
RECURSIVE deduct_issues(_, _, _, _)
deduct_issues(score, grammar_issues, first, last) ==
    IF first > last THEN score
    ELSE IF first = last THEN deduct_issue(score, grammar_issues[first])
    ELSE Value({ deduct_issues(partly, grammar_issues, (first + last) \div 2 + 1, last)
               : partly \in {deduct_issues(score, grammar_issues, first,
                                           (first + last) \div 2)} })

\* A faulty variant of _calculate_score: the final clamp left out
_calculate_score_unclamped(grammar_issues, style_suggestions, readability) ==
    Value({
      IF readability.flesch_reading_ease < HardToReadBelow
      THEN fsub(s2, HardToReadPenalty)
      ELSE IF readability.flesch_reading_ease > TooSimpleAbove
      THEN fsub(s2, TooSimplePenalty)
      ELSE s2
    : s2 \in {fsub(deduct_issues(ScoreStart, grammar_issues, 1, Len(grammar_issues)),
                   fmul(Len(style_suggestions), StylePenalty))} })

\* A faulty variant of _calculate_score: both readability tests made inclusive
_calculate_score_inclusive(grammar_issues, style_suggestions, readability) ==
    Value({
      fmax(ScoreFloor, fmin(ScoreCeiling,
           IF readability.flesch_reading_ease <= HardToReadBelow
           THEN fsub(s2, HardToReadPenalty)
           ELSE IF readability.flesch_reading_ease >= TooSimpleAbove
           THEN fsub(s2, TooSimplePenalty)
           ELSE s2))
    : s2 \in {fsub(deduct_issues(ScoreStart, grammar_issues, 1, Len(grammar_issues)),
                   fmul(Len(style_suggestions), StylePenalty))} })

_calculate_score(grammar_issues, style_suggestions, readability) ==
    Value({
      fmax(ScoreFloor, fmin(ScoreCeiling,
           IF readability.flesch_reading_ease < HardToReadBelow
           THEN fsub(s2, HardToReadPenalty)
           ELSE IF readability.flesch_reading_ease > TooSimpleAbove
           THEN fsub(s2, TooSimplePenalty)
           ELSE s2))
    : s2 \in {fsub(deduct_issues(ScoreStart, grammar_issues, 1, Len(grammar_issues)),
                   fmul(Len(style_suggestions), StylePenalty))} })

\* grammar_checker.py:109: word_count = len(text.split())
count_words(text) == Len(split(text))

\* grammar_checker.py:110-111: sentence_count = len(nltk.sent_tokenize(text))
count_sentences(text) == Len(sent_tokenize(text))

\* A faulty variant of count_characters: the length of a trimmed copy
count_characters_stripped(text) == Len(strip(text))

\* grammar_checker.py:112: character_count = len(text)
count_characters(text) == Len(text)

\* analyze(self, text): raises what tool.check raises, else returns the
\* AnalysisResult (result is << >> when the call raised).  Neither it nor
\* a method it calls assigns an attribute: self is after the call what it
\* was before.
analyze(self, text, chk, fre) ==
    Value({
      IF grammar.exc # "None"
      THEN [exc |-> grammar.exc, calls |-> grammar.calls, result |-> << >>,
            self |-> self]
      ELSE Value({
        [exc   |-> "None",
         self  |-> self,
         calls |-> grammar.calls
                     \o << Call("nltk.sent_tokenize", text) >>
                     \o readability.calls
                     \o << Call("nltk.sent_tokenize", text) >>,
         result |-> <<
           [original_text     |-> text,
            grammar_issues    |-> grammar.issues,
            style_suggestions |-> style_suggestions,
            readability       |-> readability.metrics,
            word_count        |-> count_words(text),
            sentence_count    |-> count_sentences(text),
            character_count   |-> count_characters(text),
            score |-> _calculate_score(grammar.issues, style_suggestions,
                                       readability.metrics)] >>]
        : style_suggestions \in {_analyze_style(self, text)},
          readability \in {_calculate_readability(text, fre)} })
      : grammar \in {_check_grammar(text, chk)} })

\* A faulty variant of correct_text: the call uses up the patterns of self
correct_text_consuming(self, text, chk) ==
    IF chk.exc # "None"
    THEN [exc |-> chk.exc, calls |-> << Call("tool.check", text) >>, value |-> << >>,
          self |-> [self EXCEPT !.passive_voice_patterns = << >>]]
    ELSE [exc   |-> "None",
          calls |-> << Call("tool.check", text), Call("utils.correct", text) >>,
          value |-> << correct(text, chk.matches) >>,
          self  |-> [self EXCEPT !.passive_voice_patterns = << >>]]

\* correct_text(self, text): raises what tool.check raises, else returns
\* utils.correct(text, matches) (value is << >> when the call raised); it
\* assigns no attribute of self
correct_text(self, text, chk) ==
    IF chk.exc # "None"
    THEN [exc |-> chk.exc, calls |-> << Call("tool.check", text) >>, value |-> << >>,
          self |-> self]
    ELSE [exc   |-> "None",
          calls |-> << Call("tool.check", text), Call("utils.correct", text) >>,
          value |-> << correct(text, chk.matches) >>,
          self  |-> self]

\* close(self)
close == << Call("tool.close", << >>) >>

(***************************************************************************)
(* Inputs                                                                  *)
(***************************************************************************)
\* the longest text of the exhaustive part of Texts
MaxLen == 3

\* the most error-severity and other findings, and the most style findings,
\* handed to _calculate_score directly
MaxErrors == 51
MaxWarnings == 2
MaxStyle == 2

Alphabet == {"a", " ", "."}

RECURSIVE SeqsUpTo(_, _)
SeqsUpTo(S, n) ==
    IF n = 0 THEN { << >> }
    ELSE LET shorter == SeqsUpTo(S, n - 1) IN
         shorter \cup { Append(s, c) : s \in {t \in shorter : Len(t) = n - 1}, c \in S }

\* tests/test_grammar_checker.py:130, tests/test_api.py:115
TextStatistics ==
    <<"F","i","r","s","t"," ","s","e","n","t","e","n","c","e","."," ","S",
      "e","c","o","n","d"," ","s","e","n","t","e","n","c","e","."," ","T",
      "h","i","r","d"," ","s","e","n","t","e","n","c","e",".">>

\* tests/test_api.py:37
TextValid ==
    <<"T","h","i","s"," ","i","s"," ","a"," ","t","e","s","t"," ","s","e",
      "n","t","e","n","c","e",".">>

\* whitespace of several kinds and nothing else
TextBlank ==
    <<" ","\n","\t","",""," "," ">>

\* a repeated word between leading and trailing whitespace
TextPadded ==
    <<" "," ","i","s"," ","i","s"," ","\n">>

\* a passive construction between leading and trailing whitespace
TextPaddedPassive ==
    <<"\n"," ","w","a","s"," ","t","a","k","e","n","."," ">>

\* examples/usage_examples.py:16
BasicUsageText ==
    <<"S","h","e"," ","d","o","n","t"," ","l","i","k","e"," ","a","p","p",
      "l","e","s","."," ","T","h","e"," ","w","e","a","t","h","e","r"," ",
      "a","r","e"," ","n","i","c","e"," ","t","o","d","a","y",".">>

\* examples/usage_examples.py:52-56
StyleAnalysisText ==
    <<"\n"," "," "," "," ","A","t"," ","t","h","i","s"," ","p","o","i","n",
      "t"," ","i","n"," ","t","i","m","e",","," ","t","h","e"," ","r","e",
      "p","o","r","t"," ","w","a","s"," ","w","r","i","t","t","e","n"," ",
      "b","y"," ","t","h","e"," ","c","o","m","m","i","t","t","e","e",".",
      " ","\n"," "," "," "," ","D","u","e"," ","t","o"," ","t","h","e"," ",
      "f","a","c","t"," ","t","h","a","t"," ","t","h","e"," ","b","u","d",
      "g","e","t"," ","i","s"," ","l","i","m","i","t","e","d",","," ","w",
      "e"," ","n","e","e","d"," ","t","o"," ","m","a","k","e"," ","a"," ",
      "d","e","c","i","s","i","o","n"," ","\n"," "," "," "," ","i","n"," ",
      "o","r","d","e","r"," ","t","o"," ","p","r","o","c","e","e","d"," ",
      "w","i","t","h"," ","t","h","e"," ","p","r","o","j","e","c","t",".",
      "\n"," "," "," "," ">>

\* examples/usage_examples.py:79
SimpleText ==
    <<"T","h","e"," ","c","a","t"," ","s","a","t"," ","o","n"," ","t","h",
      "e"," ","m","a","t","."," ","T","h","e"," ","d","o","g"," ","r","a",
      "n"," ","i","n"," ","t","h","e"," ","p","a","r","k",".">>

\* examples/usage_examples.py:80-85
ComplexText ==
    <<"\n"," "," "," "," ","T","h","e"," ","m","u","l","t","i","f","a","c",
      "e","t","e","d"," ","i","m","p","l","i","c","a","t","i","o","n","s",
      " ","o","f"," ","c","o","n","t","e","m","p","o","r","a","r","y"," ",
      "s","o","c","i","o","e","c","o","n","o","m","i","c"," ","p","a","r",
      "a","d","i","g","m","s"," ","\n"," "," "," "," ","n","e","c","e","s",
      "s","i","t","a","t","e"," ","c","o","m","p","r","e","h","e","n","s",
      "i","v","e"," ","a","n","a","l","y","t","i","c","a","l"," ","f","r",
      "a","m","e","w","o","r","k","s"," ","t","h","a","t"," ","c","a","n",
      " ","a","d","e","q","u","a","t","e","l","y"," ","\n"," "," "," "," ",
      "a","d","d","r","e","s","s"," ","t","h","e"," ","i","n","t","r","i",
      "c","a","t","e"," ","i","n","t","e","r","d","e","p","e","n","d","e",
      "n","c","i","e","s"," ","i","n","h","e","r","e","n","t"," ","i","n",
      " ","m","o","d","e","r","n"," ","i","n","s","t","i","t","u","t","i",
      "o","n","a","l"," ","\n"," "," "," "," ","s","t","r","u","c","t","u",
      "r","e","s",".","\n"," "," "," "," ">>

\* tests/test_grammar_checker.py:46
TextThrown ==
    <<"T","h","e"," ","b","a","l","l"," ","w","a","s"," ","t","h","r","o",
      "w","n"," ","b","y"," ","t","h","e"," ","b","o","y",".">>

\* tests/test_grammar_checker.py:76
TextRepeatedThe ==
    <<"T","h","e"," ","t","h","e"," ","c","a","t"," ","s","a","t"," ","o",
      "n"," ","t","h","e"," ","m","a","t",".">>

\* a doubled word of the allow-list (grammar_checker.py:251)
TextVeryVery ==
    <<"v","e","r","y"," ","v","e","r","y"," ","t","i","r","e","d">>

\* tests/test_grammar_checker.py:56
TextWordy ==
    <<"A","t"," ","t","h","i","s"," ","p","o","i","n","t"," ","i","n"," ",
      "t","i","m","e",","," ","w","e"," ","n","e","e","d"," ","t","o"," ",
      "m","a","k","e"," ","a"," ","d","e","c","i","s","i","o","n",".">>

\* tests/test_grammar_checker.py:66
TextLongSentence ==
    <<"T","h","i","s"," ","i","s"," ","a"," ","v","e","r","y"," ","l","o",
      "n","g"," ","s","e","n","t","e","n","c","e"," ","t","h","a","t"," ",
      "g","o","e","s"," ","o","n"," ","a","n","d"," ","o","n"," ","a","n",
      "d"," ","o","n"," ","w","i","t","h"," ","m","a","n","y"," ","c","l",
      "a","u","s","e","s"," ","a","n","d"," ","p","h","r","a","s","e","s",
      " ","t","h","a","t"," ","c","o","u","l","d"," ","e","a","s","i","l",
      "y"," ","b","e"," ","b","r","o","k","e","n"," ","u","p"," ","i","n",
      "t","o"," ","m","u","l","t","i","p","l","e"," ","s","h","o","r","t",
      "e","r"," ","s","e","n","t","e","n","c","e","s"," ","t","o"," ","i",
      "m","p","r","o","v","e"," ","r","e","a","d","a","b","i","l","i","t",
      "y"," ","a","n","d"," ","m","a","k","e"," ","t","h","e"," ","t","e",
      "x","t"," ","e","a","s","i","e","r"," ","t","o"," ","u","n","d","e",
      "r","s","t","a","n","d"," ","f","o","r"," ","t","h","e"," ","a","v",
      "e","r","a","g","e"," ","r","e","a","d","e","r",".">>

\* a be-verb followed by itself: both a passive and a repetition match
TextBeenBeen ==
    <<"b","e","e","n"," ","b","e","e","n">>

\* two passive constructions that share a word
TextChained ==
    <<"i","s"," ","b","e","e","n"," ","t","a","k","e","n">>

\* a repetition before a passive construction
TextRepeatThenPassive ==
    <<"a"," ","a"," ","i","s"," ","t","a","k","e","n">>

\* a word three times: the second pair overlaps the first
TextTripled ==
    <<"t","h","e"," ","t","h","e"," ","t","h","e">>

\* a word four times: two pairs, and one between them that overlaps both
TextQuadrupled ==
    <<"a"," ","a"," ","a"," ","a">>

\* five of the wordy phrases (grammar_checker.py:194-204), the last ones first
TextWordyFirst ==
    <<"P","r","i","o","r"," ","t","o",","," ","a"," ","n","u","m","b","e",
      "r"," ","o","f",","," ","i","n"," ","s","p","i","t","e"," ","o","f",
      " ","t","h","e"," ","f","a","c","t"," ","t","h","a","t",","," ","w",
      "i","t","h"," ","r","e","g","a","r","d"," ","t","o",","," ","I","n",
      " ","T","h","e"," ","E","v","e","n","t"," ","T","h","a","t",".">>

\* the other four wordy phrases, one of them twice
TextWordyRest ==
    <<"F","o","r"," ","t","h","e"," ","p","u","r","p","o","s","e"," ","o",
      "f",","," ","i","n"," ","o","r","d","e","r"," ","t","o",","," ","d",
      "u","e"," ","t","o"," ","t","h","e"," ","f","a","c","t"," ","t","h",
      "a","t",","," ","a","t"," ","t","h","i","s"," ","p","o","i","n","t",
      " ","i","n"," ","t","i","m","e",","," ","i","n"," ","o","r","d","e",
      "r"," ","t","o",".">>

\* a doubled word with accented letters in two cases, a vertical tab between
TextAccented ==
    <<"É","t","é","","é","t","é">>

\* a short sentence, a run of spaces as long as the next sentence, and
\* one long sentence twice
TextFarApart ==
    <<"H","e","l","l","o"," ","t","h","e","r","e","."," "," "," "," "," ",
      " "," "," "," "," "," "," "," "," "," "," "," "," "," "," "," "," ",
      " "," "," "," "," "," "," "," "," "," "," "," "," "," "," "," "," ",
      " "," "," "," "," "," "," "," "," "," "," "," "," "," "," "," "," ",
      " "," "," "," "," "," "," "," "," "," ","W","e"," ","a"," ","b"," ",
      "a"," ","b"," ","a"," ","b"," ","a"," ","b"," ","a"," ","b"," ","a",
      " ","b"," ","a"," ","b"," ","a"," ","b"," ","a"," ","b"," ","a"," ",
      "b"," ","a"," ","b"," ","a"," ","b"," ","a"," ","b"," ","a"," ","b",
      " ","a"," ","w","e","n","t","."," ","W","e"," ","a"," ","b"," ","a",
      " ","b"," ","a"," ","b"," ","a"," ","b"," ","a"," ","b"," ","a"," ",
      "b"," ","a"," ","b"," ","a"," ","b"," ","a"," ","b"," ","a"," ","b",
      " ","a"," ","b"," ","a"," ","b"," ","a"," ","b"," ","a"," ","b"," ",
      "a"," ","w","e","n","t",".">>

Texts ==
    SeqsUpTo(Alphabet, MaxLen)
        \cup {TextStatistics, TextValid, TextBlank, TextPadded, TextPaddedPassive,
              TextThrown}

\* the texts given to the command line
CliTexts == SeqsUpTo(Alphabet, 1) \cup {TextValid, TextBlank, TextPadded}

\* what tool.check may answer for a text: matches on its first character,
\* of the two error categories and of another one, with and without
\* replacements
Replacements == << <<"b">>, <<"c","c">>, << >>, <<"d">> >>

MatchOf(text, category) ==
    Match(0, Min(1, Len(text)), category,
          IF category = "STYLE" THEN << >> ELSE Replacements)

CheckResponses(text) ==
    { << >>,
      << MatchOf(text, "GRAMMAR") >>,
      << MatchOf(text, "TYPOS") >>,
      << MatchOf(text, "STYLE") >>,
      << MatchOf(text, "GRAMMAR"), MatchOf(text, "STYLE") >> }

CheckOutcomes(text) == {Raises} \cup {Returns(m) : m \in CheckResponses(text)}

\* what a later tool.check on the same text does: the same answer, or raise
Again(chk, raises) == IF raises THEN Raises ELSE chk

\* Flesch Reading Ease values (tenths) on both sides of 30 and of 90
FREs == {299, 300, 650, 900, 901}

\* e error-severity and w other findings, in either order
RECURSIVE Repeat(_, _)
Repeat(x, n) == IF n = 0 THEN << >> ELSE << x >> \o Repeat(x, n - 1)

IssueList(e, w, errors_first) ==
    LET errors   == Repeat(GrammarIssue(<< >>, Match(0, 0, "GRAMMAR", << >>)), e)
        warnings == Repeat(GrammarIssue(<< >>, Match(0, 0, "STYLE", << >>)), w)
    IN IF errors_first THEN errors \o warnings ELSE warnings \o errors

StyleList(n) ==
    Repeat(StyleSuggestion(MsgPassive, "passive_voice", 0, 0, << >>, SuggestPassive), n)

\* the most pieces put together into one text
MaxPieces == 3

\* the most sentences put together into one text
MaxSentences == 2

\* words, whitespace and punctuation that the detectors' patterns react to
Pieces ==
    { <<"i","s">>,
      <<"B","e","e","n">>,
      <<"t","a","k","e","n">>,
      <<"u","s","e","d">>,
      <<"t","h","e">>,
      <<"T","h","e">>,
      <<"v","e","r","y">>,
      <<" ">>,
      <<"\n"," ">>,
      <<".">>,
      <<"i","n"," ","o","r","d","e","r"," ","t","o">> }

RECURSIVE PieceTexts(_)
PieceTexts(n) ==
    IF n = 0 THEN { << >> }
    ELSE LET shorter == PieceTexts(n - 1) IN
         shorter \cup { t \o p : t \in shorter, p \in Pieces }

\* n words, "a" and "b" in turn, one space between them
RECURSIVE Words(_)
Words(n) ==
    IF n = 1 THEN <<"a">>
    ELSE Words(n - 1) \o <<" ">> \o (IF n % 2 = 0 THEN <<"b">> ELSE <<"a">>)

SentenceOf(n) == Words(n) \o <<".">>

\* word counts on both sides of the threshold of _check_sentence_length
SentenceLengths == {1, LongSentenceWords, LongSentenceWords + 1}

\* whitespace between two sentences, and before the first one
Gaps == { <<" ">>, <<" ","\n"," ">> }
Leads == { << >>, <<" "," ">> }

RECURSIVE SentenceTexts(_)
SentenceTexts(n) ==
    IF n = 1 THEN { lead \o SentenceOf(k) : lead \in Leads, k \in SentenceLengths }
    ELSE LET shorter == SentenceTexts(n - 1) IN
         shorter \cup { t \o g \o SentenceOf(k)
                        : t \in shorter, g \in Gaps, k \in SentenceLengths }

\* the texts given to _analyze_style
StyleTexts ==
    PieceTexts(MaxPieces) \cup SentenceTexts(MaxSentences)
        \cup {TextThrown, TextRepeatedThe, TextVeryVery, TextWordy,
              TextLongSentence, TextBeenBeen, TextChained,
              TextRepeatThenPassive, TextFarApart, TextAccented, TextPadded,
              TextPaddedPassive, StyleAnalysisText, TextTripled,
              TextQuadrupled, TextWordyFirst, TextWordyRest}


(***************************************************************************)
(* State                                                                   *)
(***************************************************************************)
Idle == [kind |-> "idle"]

Init ==
    /\ checker = [tool |-> "none"]      \* server.py:77: checker = None
    /\ op = Idle
    /\ history = {}

\* the run that was recorded is over; the next call can start
Return ==
    /\ op.kind # "idle"
    /\ op' = Idle
    /\ UNCHANGED <<checker, history>>

(***************************************************************************)
(* Direct calls on a live checker (as the test fixture makes them)         *)
(***************************************************************************)
Analyze ==
    /\ op.kind = "idle"
    /\ \E text \in Texts :
       \E chk \in CheckOutcomes(text), fre \in FREs :
       \E r \in {analyze(fixture, text, chk, fre)} :
          op' = [kind |-> "analyze", text |-> text, chk |-> chk, fre |-> fre,
                 exc |-> r.exc, calls |-> r.calls, result |-> r.result]
    /\ UNCHANGED <<checker, history>>

CorrectText ==
    /\ op.kind = "idle"
    /\ \E text \in Texts :
       \E chk \in CheckOutcomes(text) :
       \E r \in {correct_text(fixture, text, chk)} :
          op' = [kind |-> "correct_text", text |-> text, chk |-> chk,
                 exc |-> r.exc, calls |-> r.calls, value |-> r.value]
    /\ UNCHANGED <<checker, history>>

CalculateScore ==
    /\ op.kind = "idle"
    /\ \E e \in 0..MaxErrors, w \in 0..MaxWarnings, errors_first \in BOOLEAN,
          s \in 0..MaxStyle, fre \in FREs :
          LET grammar_issues    == IssueList(e, w, errors_first)
              style_suggestions == StyleList(s)
              readability       == [flesch_reading_ease |-> fre]
          IN op' = [kind |-> "_calculate_score",
                    grammar_issues |-> grammar_issues,
                    style_suggestions |-> style_suggestions,
                    readability |-> readability,
                    score |-> _calculate_score(grammar_issues, style_suggestions,
                                               readability)]
    /\ UNCHANGED <<checker, history>>

\* _analyze_style(self, text) called on a live checker
AnalyzeStyle ==
    /\ op.kind = "idle"
    /\ \E text \in StyleTexts :
       \E r \in {_analyze_style(fixture, text)} :
          op' = [kind |-> "_analyze_style", text |-> text, style_suggestions |-> r]
    /\ UNCHANGED <<checker, history>>

(***************************************************************************)
(* Command line (cli.py:28-188)                                            *)
(***************************************************************************)
\* One run of main().  source says where the text comes from: the
\* positional argument, --file, or a --file that does not exist.  chk is
\* what the first tool.check of the run does, again what a second one does.
main_body(command, source, correct_flag, text, chk, again, fre) ==
    IF source = "missing_file" \/ (source = "text" /\ text = << >>)
    THEN \* cli.py:82-91: sys.exit(1) before any checker exists
         [exc |-> "SystemExit", calls |-> << >>, result |-> << >>,
          corrected |-> << >>]
    ELSE Value({
      \* cli.py:187-188: finally: checker.close()
      [exc |-> tried.exc,
       calls |-> << Call("GrammarChecker", << >>) >> \o made.calls
                   \o tried.calls
                   \o << Call("close", << >>) >> \o close,
       result |-> tried.result, corrected |-> tried.corrected]
      : made \in {GrammarChecker({})},                   \* cli.py:95
        tried \in {                                      \* cli.py:97-185
          IF command = "correct"
          THEN Value({
                 [exc |-> c.exc,
                  calls |-> << Call("correct_text", text) >> \o c.calls,
                  result |-> << >>, corrected |-> c.value]
                 : c \in {correct_text(GrammarChecker({}).self, text, chk)} })
          ELSE Value({
                 IF a.exc # "None" \/ ~correct_flag
                 THEN [exc |-> a.exc,
                       calls |-> << Call("analyze", text) >> \o a.calls,
                       result |-> a.result, corrected |-> << >>]
                 ELSE Value({
                        [exc |-> c.exc,
                         calls |-> << Call("analyze", text) >> \o a.calls
                                     \o << Call("correct_text", text) >> \o c.calls,
                         result |-> a.result, corrected |-> c.value]
                        : c \in {correct_text(GrammarChecker({}).self, text, again)} })
                 : a \in {analyze(GrammarChecker({}).self, text, chk, fre)} }) } })

main ==
    /\ op.kind = "idle"
    /\ \E command \in {"check", "correct"},
          source \in {"text", "file", "missing_file"},
          correct_flag \in BOOLEAN, text \in CliTexts :
       \E chk \in CheckOutcomes(text), again_raises \in BOOLEAN, fre \in FREs :
       \E r \in {main_body(command, source, correct_flag, text, chk,
                            Again(chk, again_raises), fre)} :
             op' = [kind |-> "main", command |-> command, source |-> source,
                    correct_flag |-> correct_flag, text |-> text, chk |-> chk,
                    again_raises |-> again_raises, fre |-> fre,
                    exc |-> r.exc, calls |-> r.calls, result |-> r.result,
                    corrected |-> r.corrected]
    /\ UNCHANGED <<checker, history>>

(***************************************************************************)
(* HTTP API (server.py:76-201)                                             *)
(***************************************************************************)
\* the keyword arguments of both constructor calls of server.py (85, 141)
ServerKwargs == {"use_language_tool"}

\* lifespan(app), up to its yield: the startup half.  The assignment to the
\* global happens only when the constructor returns.
lifespan_body(global_checker) ==
    Value({ [exc |-> made.exc,
             calls |-> << Call("GrammarChecker", << >>) >> \o made.calls,
             checker |-> IF made.exc = "None" THEN made.self ELSE global_checker]
            : made \in {GrammarChecker(ServerKwargs)} })

lifespan ==
    /\ op.kind = "idle"
    /\ \E r \in {lifespan_body(checker)} :
          /\ op' = [kind |-> "lifespan", exc |-> r.exc, calls |-> r.calls]
          /\ checker' = r.checker
          /\ UNCHANGED history

\* lifespan(app), after its yield: the shutdown half, `if checker:
\* checker.close()`.  It runs only after a startup that returned.
lifespan_shutdown ==
    /\ op.kind = "idle"
    /\ checker.tool = "open"
    /\ op' = [kind |-> "lifespan_shutdown", exc |-> "None",
              calls |-> << Call("close", << >>) >> \o close]
    /\ checker' = [checker EXCEPT !.tool = "closed"]
    /\ UNCHANGED history

\* A faulty variant of is_blank: the test without its strip() half
is_blank_unstripped(text) == text = << >>

\* server.py:135: `not request.text or not request.text.strip()`
is_blank(text) == text = << >> \/ strip(text) = << >>

\* One POST /api/check.  status is the HTTP status of the answer; response
\* is << >> unless the handler returned a CheckResponse.
CheckResponse(result, corrected_text) ==
    [original_text     |-> result.original_text,
     corrected_text    |-> corrected_text,
     grammar_issues    |-> result.grammar_issues,
     style_suggestions |-> result.style_suggestions,
     readability       |-> result.readability,
     word_count        |-> result.word_count,
     sentence_count    |-> result.sentence_count,
     character_count   |-> result.character_count,
     score             |-> result.score]

check_grammar_body(global_checker, text, auto_correct, chk, again, fre) ==
    IF is_blank(text)
    THEN \* server.py:136, outside the try
         [status |-> 400, calls |-> << >>, response |-> << >>,
          checker |-> global_checker]
    ELSE Value({
      IF made.exc # "None"
      THEN \* server.py:200-201
           [status |-> 500, calls |-> made.calls, response |-> << >>,
            checker |-> global_checker]
      ELSE Value({
        IF a.exc # "None"
        THEN [status |-> 500,
              calls |-> made.calls \o << Call("analyze", text) >> \o a.calls,
              response |-> << >>, checker |-> made.self]
        ELSE IF ~auto_correct
        THEN [status |-> 200,
              calls |-> made.calls \o << Call("analyze", text) >> \o a.calls,
              response |-> << CheckResponse(a.result[1], << >>) >>,
              checker |-> made.self]
        ELSE Value({
          IF c.exc # "None"
          THEN [status |-> 500,
                calls |-> made.calls \o << Call("analyze", text) >> \o a.calls
                            \o << Call("correct_text", text) >> \o c.calls,
                response |-> << >>, checker |-> made.self]
          ELSE [status |-> 200,
                calls |-> made.calls \o << Call("analyze", text) >> \o a.calls
                            \o << Call("correct_text", text) >> \o c.calls,
                response |-> << CheckResponse(a.result[1], c.value) >>,
                checker |-> made.self]
          : c \in {correct_text(made.self, text, again)} })  \* server.py:187
        : a \in {analyze(made.self, text, chk, fre)} })  \* server.py:144
      : made \in {                                            \* server.py:140-141
          IF global_checker.tool = "none"
          THEN Value({ [exc |-> m.exc, self |-> m.self,
                        calls |-> << Call("GrammarChecker", << >>) >> \o m.calls]
                       : m \in {GrammarChecker(ServerKwargs)} })
          ELSE [exc |-> "None", self |-> global_checker, calls |-> << >>] } })

check_grammar ==
    /\ op.kind = "idle"
    /\ \E text \in Texts, auto_correct \in BOOLEAN :
       \E chk \in CheckOutcomes(text), again_raises \in BOOLEAN, fre \in FREs :
       \E r \in {check_grammar_body(checker, text, auto_correct, chk,
                                    Again(chk, again_raises), fre)} :
             /\ op' = [kind |-> "check_grammar", text |-> text,
                       auto_correct |-> auto_correct, chk |-> chk,
                       again_raises |-> again_raises, fre |-> fre,
                       lifespan_ran |-> checker.tool # "none",
                       status |-> r.status, calls |-> r.calls,
                       response |-> r.response]
             /\ checker' = r.checker
             /\ UNCHANGED history

(***************************************************************************)
(* Usage examples (examples/usage_examples.py:8-98)                        *)
(***************************************************************************)
\* example_basic_usage(): construct, analyze, correct_text, close, with no
\* try/finally around them
example_basic_usage_body(chk, again, fre) ==
    Value({
      IF a.exc # "None"
      THEN [exc |-> a.exc,
            calls |-> << Call("GrammarChecker", << >>) >> \o made.calls
                        \o << Call("analyze", BasicUsageText) >> \o a.calls]
      ELSE IF c.exc # "None"
      THEN [exc |-> c.exc,
            calls |-> << Call("GrammarChecker", << >>) >> \o made.calls
                        \o << Call("analyze", BasicUsageText) >> \o a.calls
                        \o << Call("correct_text", BasicUsageText) >> \o c.calls]
      ELSE [exc |-> "None",
            calls |-> << Call("GrammarChecker", << >>) >> \o made.calls
                        \o << Call("analyze", BasicUsageText) >> \o a.calls
                        \o << Call("correct_text", BasicUsageText) >> \o c.calls
                        \o << Call("close", << >>) >> \o close]
      : made \in {GrammarChecker({})},                         \* line 13
        a \in {analyze(GrammarChecker({}).self, BasicUsageText, chk, fre)},  \* line 21
        c \in {correct_text(GrammarChecker({}).self, BasicUsageText, again)} })  \* line 38

example_basic_usage ==
    /\ op.kind = "idle"
    /\ \E chk \in CheckOutcomes(BasicUsageText), again_raises \in BOOLEAN,
          fre \in FREs :
       \E r \in {example_basic_usage_body(chk, Again(chk, again_raises), fre)} :
          op' = [kind |-> "example_basic_usage", chk |-> chk,
                 again_raises |-> again_raises, fre |-> fre,
                 exc |-> r.exc, calls |-> r.calls]
    /\ UNCHANGED <<checker, history>>

\* example_style_analysis(): construct, analyze, close
example_style_analysis_body(chk, fre) ==
    Value({
      IF a.exc # "None"
      THEN [exc |-> a.exc,
            calls |-> << Call("GrammarChecker", << >>) >> \o made.calls
                        \o << Call("analyze", StyleAnalysisText) >> \o a.calls]
      ELSE [exc |-> "None",
            calls |-> << Call("GrammarChecker", << >>) >> \o made.calls
                        \o << Call("analyze", StyleAnalysisText) >> \o a.calls
                        \o << Call("close", << >>) >> \o close]
      : made \in {GrammarChecker({})},  \* line 49
        a \in {analyze(GrammarChecker({}).self, StyleAnalysisText, chk, fre)} })  \* line 60

example_style_analysis ==
    /\ op.kind = "idle"
    /\ \E chk \in CheckOutcomes(StyleAnalysisText), fre \in FREs :
       \E r \in {example_style_analysis_body(chk, fre)} :
          op' = [kind |-> "example_style_analysis", chk |-> chk, fre |-> fre,
                 exc |-> r.exc, calls |-> r.calls]
    /\ UNCHANGED <<checker, history>>

\* example_readability_analysis(): construct, analyze twice, close
example_readability_analysis_body(chk, again, fre) ==
    Value({
      IF a1.exc # "None"
      THEN [exc |-> a1.exc,
            calls |-> << Call("GrammarChecker", << >>) >> \o made.calls
                        \o << Call("analyze", SimpleText) >> \o a1.calls]
      ELSE IF a2.exc # "None"
      THEN [exc |-> a2.exc,
            calls |-> << Call("GrammarChecker", << >>) >> \o made.calls
                        \o << Call("analyze", SimpleText) >> \o a1.calls
                        \o << Call("analyze", ComplexText) >> \o a2.calls]
      ELSE [exc |-> "None",
            calls |-> << Call("GrammarChecker", << >>) >> \o made.calls
                        \o << Call("analyze", SimpleText) >> \o a1.calls
                        \o << Call("analyze", ComplexText) >> \o a2.calls
                        \o << Call("close", << >>) >> \o close]
      : made \in {GrammarChecker({})},  \* line 76
        a1 \in {analyze(GrammarChecker({}).self, SimpleText, chk, fre)},  \* line 88
        a2 \in {analyze(GrammarChecker({}).self, ComplexText, again, fre)} })  \* line 93

example_readability_analysis ==
    /\ op.kind = "idle"
    /\ \E chk \in CheckOutcomes(SimpleText), again_raises \in BOOLEAN,
          fre \in FREs :
       \E r \in {example_readability_analysis_body(chk, Again(chk, again_raises), fre)} :
          op' = [kind |-> "example_readability_analysis", chk |-> chk,
                 again_raises |-> again_raises, fre |-> fre,
                 exc |-> r.exc, calls |-> r.calls]
    /\ UNCHANGED <<checker, history>>

(***************************************************************************)
(* Specification                                                           *)
(***************************************************************************)
\* lifespan_shutdown is no disjunct: it needs a startup that returned, and
\* GrammarChecker(ServerKwargs) never returns.
Next ==
    \/ Analyze
    \/ CorrectText
    \/ CalculateScore
    \/ AnalyzeStyle
    \/ main
    \/ lifespan
    \/ check_grammar
    \/ example_basic_usage
    \/ example_style_analysis
    \/ example_readability_analysis
    \/ Return

Spec == Init /\ [][Next]_vars

(***************************************************************************)
(* One checker used for call after call, as a test function uses the one   *)
(* its fixture hands it (tests/test_grammar_checker.py:8-13).  A call is   *)
(* made on the checker as the calls before it left it, and the checker is  *)
(* afterwards what the call made of it.                                    *)
(***************************************************************************)
\* the texts of the calls: one without a passive construction and two
\* with one
SessionTexts == {TextPadded, TextPaddedPassive, TextChained}

\* what tool.check does with a text: raise, or find one issue
SessionOutcomes(text) == {Raises, Returns(<< MatchOf(text, "GRAMMAR") >>)}

\* Flesch Reading Ease values (tenths) with and without a deduction
SessionFREs == {299, 650}

\* the most first answers that history keeps
MaxRemembered == 1

SessionInit ==
    /\ checker = fixture
    /\ op = Idle
    /\ history = {}

\* the first answers kept for a text and its capability responses
Remembered(text, chk, fre) ==
    {h \in history : h.text = text /\ h.chk = chk /\ h.fre = fre}

\* the call that op records was made on another text than this one
AfterOther(text) == op.kind # "idle" /\ op.text # text

\* checker.analyze(text)
SessionAnalyze ==
    \E text \in SessionTexts :
    \E chk \in SessionOutcomes(text), fre \in SessionFREs :
    \E r \in {analyze(checker, text, chk, fre)} :
       /\ op' = [kind |-> "analyze", text |-> text, chk |-> chk, fre |-> fre,
                 exc |-> r.exc, calls |-> r.calls, result |-> r.result,
                 again |-> Remembered(text, chk, fre) # {},
                 after_other |-> AfterOther(text)]
       /\ checker' = r.self
       /\ history' =
             IF Remembered(text, chk, fre) # {} \/ Cardinality(history) >= MaxRemembered
             THEN history
             ELSE history \cup {[text |-> text, chk |-> chk, fre |-> fre,
                                 exc |-> r.exc, result |-> r.result]}

\* checker.correct_text(text)
SessionCorrectText ==
    \E text \in SessionTexts :
    \E chk \in SessionOutcomes(text) :
    \E r \in {correct_text(checker, text, chk)} :
       /\ op' = [kind |-> "correct_text", text |-> text, chk |-> chk,
                 exc |-> r.exc, calls |-> r.calls, value |-> r.value,
                 after_other |-> AfterOther(text)]
       /\ checker' = r.self
       /\ UNCHANGED history

SessionNext ==
    \/ SessionAnalyze
    \/ SessionCorrectText

SessionSpec == SessionInit /\ [][SessionNext]_vars

(***************************************************************************)
(* Properties.                                                             *)
(***************************************************************************)

\* 0.0 <= x <= 100.0 of a float x
InRange(x) ==
    /\ x.neg => (x.hi = 0 /\ x.lo = 0)
    /\ x.hi < 100 * Pow2(HiBits + 1) \/ (x.hi = 100 * Pow2(HiBits + 1) /\ x.lo = 0)

\* the tenth nearest to a float x >= 0 that lies within 2^-24 of a tenth
Tenths(x) ==
    10 * (x.hi \div Pow2(HiBits + 1))
       + (10 * (x.hi % Pow2(HiBits + 1)) + Pow2(HiBits)) \div Pow2(HiBits + 1)

\* the exact distance between x - y and 2.0, in units of 2^-54, for y <= x
OffTwo(x, y) ==
    LET d == MagSub(MagOf(x), MagOf(y))
        two == MagOf(float(2))
    IN IF MagLess(d, two) THEN MagSub(two, d) ELSE MagSub(d, two)

\* the number of error-severity findings in a list of grammar findings
Errors(grammar_issues) ==
    Cardinality({n \in DOMAIN grammar_issues : grammar_issues[n].severity = "error"})

\* 10 * (100 - 2.0*E - 0.5*W - 0.3*S - R) in whole numbers
RawTenths(grammar_issues, style_suggestions, readability) ==
    LET E == Errors(grammar_issues)
        F == readability.flesch_reading_ease
    IN 1000 - 20 * E - 5 * (Len(grammar_issues) - E) - 3 * Len(style_suggestions)
            - (IF F < 300 THEN 50 ELSE IF F > 900 THEN 20 ELSE 0)

\* max(0, min(100, 100 - 2.0*E - 0.5*W - 0.3*S - R)) as Python evaluates it
Formula(grammar_issues, style_suggestions, readability) ==
    LET E == Errors(grammar_issues)
        F == readability.flesch_reading_ease
        R == IF F < 300 THEN float(5) ELSE IF F > 900 THEN float(2) ELSE float(0)
    IN fmax(float(0), fmin(float(100),
         fsub(fsub(fsub(fsub(float(100), fmul(E, float(2))),
                        fmul(Len(grammar_issues) - E, Half)),
                   fmul(Len(style_suggestions), ThreeTenths)),
              R)))

\* the floats 97.4, 60.400000000000006 and 58.4
Float97_4 == [neg |-> FALSE, hi |-> 1634100838, lo |-> 429496832]
Float60_4above == [neg |-> FALSE, hi |-> 1013343846, lo |-> 429496832]
Float58_4 == [neg |-> FALSE, hi |-> 979789414, lo |-> 429496704]

\* C1: for every list of grammar findings, every list of style findings and
\* every Flesch Reading Ease value, the score returned by _calculate_score,
\* and so the score of every AnalysisResult that analyze returns, is at
\* least 0 and at most 100.
C1_ScoreWithinRange ==
    /\ op.kind = "_calculate_score" => InRange(op.score)
    /\ op.kind \in {"analyze", "main"} =>
          \A n \in DOMAIN op.result : InRange(op.result[n].score)
    /\ op.kind = "check_grammar" =>
          \A n \in DOMAIN op.response : InRange(op.response[n].score)

\* more findings than the starting score can pay for: the floor is met
C1_Witness ==
    /\ op.kind = "_calculate_score"
    /\ Len(op.grammar_issues) > 50
    /\ \A n \in DOMAIN op.grammar_issues : op.grammar_issues[n].severity = "error"
    /\ op.score = float(0)

\* C2: with E error-severity grammar findings, W other grammar findings, S
\* style findings and Flesch Reading Ease F, _calculate_score returns
\* max(0, min(100, 100 - 2.0*E - 0.5*W - 0.3*S - R)), where R is 5 when
\* F < 30, 2 when F > 90 and 0 from 30 to 90 inclusive; E=1, W=0, S=2, F=65
\* gives 97.4.  The score is that expression as Python evaluates it, its
\* nearest tenth is the value of the expression in the reals, and the
\* same holds of the score inside an AnalysisResult.
C2_ScoreFormula ==
    /\ op.kind = "_calculate_score" =>
          LET E == Errors(op.grammar_issues)
              S == Len(op.style_suggestions)
              F == op.readability.flesch_reading_ease
              raw == RawTenths(op.grammar_issues, op.style_suggestions, op.readability)
          IN /\ op.score = Formula(op.grammar_issues, op.style_suggestions,
                                   op.readability)
             /\ Tenths(op.score) = (IF raw < 0 THEN 0 ELSE raw)
             /\ (E = 1 /\ Len(op.grammar_issues) = 1 /\ S = 2 /\ F = 650) =>
                   op.score = Float97_4
             /\ (F \in {300, 900}) =>
                   raw = 1000 - 20 * E - 5 * (Len(op.grammar_issues) - E) - 3 * S
    /\ op.kind = "analyze" =>
          \A n \in DOMAIN op.result :
             LET r == op.result[n]
                 raw == RawTenths(r.grammar_issues, r.style_suggestions, r.readability)
             IN /\ r.score = Formula(r.grammar_issues, r.style_suggestions,
                                     r.readability)
                /\ Tenths(r.score) = (IF raw < 0 THEN 0 ELSE raw)

\* the scenario of the text: one error, two style findings, F = 65
C2_Witness ==
    /\ op.kind = "_calculate_score"
    /\ Len(op.grammar_issues) = 1
    /\ op.grammar_issues[1].severity = "error"
    /\ Len(op.style_suggestions) = 2
    /\ op.readability.flesch_reading_ease = 650
    /\ op.score = Float97_4

\* C3 as stated: with the style findings, the other grammar findings and
\* the readability held fixed, one more error-severity grammar finding
\* (added at either end of the list) lowers the score of _calculate_score
\* by exactly 2.0 whenever the score after the addition is not clamped at
\* 0, and a score of 0 stays 0.
C3_ExactlyTwo ==
    op.kind = "_calculate_score" =>
       LET added == IssueList(1, 0, TRUE)
           unclamped_after ==
              RawTenths(op.grammar_issues \o added, op.style_suggestions,
                        op.readability)
       IN \A more \in {op.grammar_issues \o added, added \o op.grammar_issues} :
          \A after \in {_calculate_score(more, op.style_suggestions, op.readability)} :
             /\ unclamped_after >= 0 =>
                   /\ flt(after, op.score)
                   /\ OffTwo(op.score, after) = MagZero
             /\ op.score = float(0) => after = float(0)
             /\ ~flt(op.score, after)

\* C3: with the style findings, the other grammar findings and the
\* readability held fixed, one more error-severity grammar finding (added
\* at either end of the list) strictly lowers the score of
\* _calculate_score whenever the score after the addition is not clamped
\* at 0, by 2.0 up to the rounding of the float subtractions: the
\* difference is within 2^-45 of 2.0 and the nearest tenths of the two
\* scores differ by 2.0.  A score of 0 stays 0.
C3_ScoreMonotone ==
    op.kind = "_calculate_score" =>
       LET added == IssueList(1, 0, TRUE)
           unclamped_after ==
              RawTenths(op.grammar_issues \o added, op.style_suggestions,
                        op.readability)
       IN \A more \in {op.grammar_issues \o added, added \o op.grammar_issues} :
          \A after \in {_calculate_score(more, op.style_suggestions, op.readability)} :
             /\ unclamped_after >= 0 =>
                   /\ flt(after, op.score)
                   /\ OffTwo(op.score, after).hi = 0
                   /\ OffTwo(op.score, after).lo <= Pow2(54 - 45)
                   /\ Tenths(after) = Tenths(op.score) - 20
             /\ op.score = float(0) => after = float(0)
             /\ ~flt(op.score, after)

\* 17 errors and 2 style findings of a text that is hard to read score
\* 60.400000000000006, and an 18th error takes that to 58.4: a step that
\* is not 2.0
C3_Witness ==
    /\ op.kind = "_calculate_score"
    /\ Len(op.grammar_issues) = 17
    /\ Errors(op.grammar_issues) = 17
    /\ Len(op.style_suggestions) = 2
    /\ op.readability.flesch_reading_ease = 299
    /\ op.score = Float60_4above
    /\ _calculate_score(op.grammar_issues \o IssueList(1, 0, TRUE),
                        op.style_suggestions, op.readability) = Float58_4
    /\ OffTwo(op.score, Float58_4) # MagZero

\* C4: when tool.check raises during analyze or correct_text the call
\* raises to its caller, no AnalysisResult (so no score) and no corrected
\* text is produced, tool.check is called once and not again, the command
\* line run raises too, and POST /api/check answers 500, never 200; the
\* handler run on a live checker answers 500 as well.
C4_ToolFailureSurfaces ==
    /\ (op.kind \in {"analyze", "correct_text"} /\ op.chk.exc # "None") =>
          /\ op.exc = op.chk.exc
          /\ Cardinality({n \in DOMAIN op.calls : op.calls[n].fn = "tool.check"}) = 1
          /\ op.calls[Len(op.calls)].fn = "tool.check"
    /\ (op.kind = "analyze" /\ op.chk.exc # "None") => op.result = << >>
    /\ (op.kind = "correct_text" /\ op.chk.exc # "None") => op.value = << >>
    /\ (op.kind = "main" /\ op.chk.exc # "None" /\ op.exc # "SystemExit") =>
          /\ op.exc = op.chk.exc
          /\ op.result = << >> /\ op.corrected = << >>
          /\ Cardinality({n \in DOMAIN op.calls : op.calls[n].fn = "tool.check"}) = 1
    /\ (op.kind = "check_grammar" /\ ~is_blank(op.text)
          /\ (op.chk.exc # "None" \/ (op.auto_correct /\ op.again_raises))) =>
          /\ op.status = 500 /\ op.response = << >>
          /\ \A r \in {check_grammar_body(fixture, op.text, op.auto_correct,
                                          op.chk, Again(op.chk, op.again_raises),
                                          op.fre)} :
                /\ r.status = 500 /\ r.response = << >>
                /\ Cardinality({n \in DOMAIN r.calls : r.calls[n].fn = "tool.check"})
                      = (IF op.chk.exc # "None" THEN 1 ELSE 2)

\* analyze on a text with content, tool.check raising
C4_Witness ==
    /\ op.kind = "analyze"
    /\ op.text = TextValid
    /\ op.chk = Raises
    /\ op.exc = "ToolError"
    /\ op.result = << >>

\* C5 as stated: in every entry point that constructs a GrammarChecker the
\* checker is constructed before its first use, close() is called on it
\* exactly once after its last use on every path, the raising ones
\* included, and nothing is called on it after close().
C5_HandleReleasedOnEveryPath ==
    op.kind \in {"main", "lifespan", "check_grammar", "example_basic_usage",
                 "example_style_analysis", "example_readability_analysis"} =>
       LET acquired == {n \in DOMAIN op.calls : op.calls[n].fn = "LanguageTool"}
           released == {n \in DOMAIN op.calls : op.calls[n].fn = "tool.close"}
           used     == {n \in DOMAIN op.calls :
                          op.calls[n].fn \in {"analyze", "correct_text", "tool.check"}}
       IN /\ Cardinality(released) = Cardinality(acquired)
          /\ \A u \in used : \E a \in acquired : a < u
          /\ \A u \in used : \A r \in released : u < r

\* C6: POST /api/check with a text that is empty or holds nothing but
\* whitespace answers 400, whatever auto_correct is, and for such a request
\* no GrammarChecker is constructed and neither analyze nor correct_text is
\* called.
C6_BlankTextRejected ==
    (op.kind = "check_grammar" /\ \A i \in DOMAIN op.text : IsSpace(op.text[i])) =>
       /\ op.status = 400
       /\ op.response = << >>
       /\ op.calls = << >>
       /\ checker.tool = "none"

\* whitespace of several kinds, auto_correct asked for
C6_Witness ==
    /\ op.kind = "check_grammar"
    /\ op.text = TextBlank
    /\ op.auto_correct
    /\ op.status = 400

\* C7 as stated: POST /api/check with a text that has a non-whitespace
\* character answers 200, with original_text equal to the request text and
\* a score between 0 and 100, whether or not the lifespan startup has run.
C7_ValidTextAnswered ==
    (op.kind = "check_grammar" /\ \E i \in DOMAIN op.text : ~IsSpace(op.text[i])
        /\ op.chk.exc = "None" /\ ~op.again_raises) =>
       /\ op.status = 200
       /\ Len(op.response) = 1
       /\ op.response[1].original_text = op.text
       /\ InRange(op.response[1].score)

\* C8: for every text analyze returns word_count equal to the number of
\* whitespace-delimited tokens, character_count equal to the length of the
\* text and sentence_count equal to the number of sentences the tokenizer
\* returns; "First sentence. Second sentence. Third sentence." has 6 words
\* and 3 sentences.
C8_Counts ==
    op.kind \in {"analyze", "main"} =>
       \A n \in DOMAIN op.result :
          LET r == op.result[n]
              token_starts == {i \in DOMAIN op.text :
                                 /\ ~IsSpace(op.text[i])
                                 /\ (i = 1 \/ IsSpace(op.text[i - 1]))}
          IN /\ r.word_count = Cardinality(token_starts)
             /\ r.character_count = Len(op.text)
             /\ r.sentence_count = Len(sent_tokenize(op.text))
             /\ op.text = TextStatistics =>
                   (r.word_count = 6 /\ r.sentence_count = 3 /\ r.character_count = 48)

\* the three-sentence text of the tests
C8_Witness ==
    /\ op.kind = "analyze"
    /\ op.text = TextStatistics
    /\ Len(op.result) = 1
    /\ op.result[1].word_count = 6
    /\ op.result[1].sentence_count = 3

\* C9: analyze("") does not raise and returns word_count, sentence_count
\* and character_count 0 with no grammar finding and no style finding, the
\* grammar capability answering with no match; each of the four style
\* detectors finds nothing in the empty string.
C9_EmptyText ==
    /\ (op.kind = "analyze" /\ op.text = << >> /\ op.chk = Returns(<< >>)) =>
          /\ op.exc = "None"
          /\ Len(op.result) = 1
          /\ op.result[1].word_count = 0
          /\ op.result[1].sentence_count = 0
          /\ op.result[1].character_count = 0
          /\ op.result[1].grammar_issues = << >>
          /\ op.result[1].style_suggestions = << >>
          /\ op.result[1].original_text = << >>
    /\ op.kind = "analyze" =>
          /\ _check_passive_voice(fixture, << >>) = << >>
          /\ _check_wordy_phrases(<< >>) = << >>
          /\ _check_sentence_length(<< >>) = << >>
          /\ _check_repeated_words(<< >>) = << >>

\* analyze("") has returned
C9_Witness ==
    /\ op.kind = "analyze"
    /\ op.text = << >>
    /\ op.chk = Returns(<< >>)
    /\ op.exc = "None"
    /\ op.result # << >>

\* C10: for every text, padded with whitespace or not, the AnalysisResult
\* has original_text equal to the input, and the grammar check, the
\* tokenizer, the readability computation, the four style detectors and the
\* three counts are all given that same text: every recorded capability
\* call carries it, and every style finding other than a sentence-length
\* one quotes the input at its own offset.
C10_TextUnmodified ==
    op.kind = "analyze" =>
       /\ \A n \in DOMAIN op.calls :
             op.calls[n].fn \in {"tool.check", "nltk.sent_tokenize", "textstat"}
                => op.calls[n].arg = op.text
       /\ \A n \in DOMAIN op.result :
             LET r == op.result[n] IN
             /\ r.original_text = op.text
             /\ {op.calls[k].fn : k \in DOMAIN op.calls}
                   = {"tool.check", "nltk.sent_tokenize", "textstat"}
             /\ r.character_count = Len(op.text)
             /\ r.word_count = Len(split(op.text))
             /\ \A k \in DOMAIN r.grammar_issues :
                   r.grammar_issues[k].offset + r.grammar_issues[k].length <= Len(op.text)
             /\ \A k \in DOMAIN r.style_suggestions :
                   LET s == r.style_suggestions[k] IN
                   s.category # "sentence_length" =>
                      /\ s.offset + s.length <= Len(op.text)
                      /\ s.original = [j \in 1..s.length |-> op.text[s.offset + j]]

\* a text with whitespace at both ends and a finding inside it
C10_Witness ==
    /\ op.kind = "analyze"
    /\ op.text = TextPadded
    /\ Len(op.result) = 1
    /\ op.result[1].original_text = TextPadded
    /\ op.result[1].style_suggestions # << >>
    /\ op.result[1].character_count = 9

(***************************************************************************)
(* Properties of the style detectors.  They describe the matches directly  *)
(* on the characters of the text.                                          *)
(***************************************************************************)
\* the findings of one category, in the order of the list
OfCategory(suggestions, category) ==
    SelectSeq(suggestions, LAMBDA s : s.category = category)

\* a word starts at index i
IsWordStart(text, i) ==
    /\ i \in DOMAIN text
    /\ IsWordChar(text[i])
    /\ (i = 1 \/ ~IsWordChar(text[i - 1]))

\* no word character at index e (or the text is over): a word ends before e
IsWordStop(text, e) == e > Len(text) \/ ~IsWordChar(text[e])

\* Of occurrences that may overlap (ends[i] is 0, or the index just past the
\* occurrence that starts at i), the starts of those a left-to-right pass
\* without overlaps takes: an occurrence is taken exactly when no taken
\* occurrence before it reaches into it.
NonOverlapping(ends) ==
    LET occurrences == {i \in DOMAIN ends : ends[i] # 0} IN
    CHOOSE taken \in SUBSET occurrences :
       \A i \in occurrences :
          (i \in taken) <=> (\A j \in taken : j < i => ends[j] <= i)

\* C11 as stated: for "The ball was thrown by the boy." the passive-voice
\* detector produces at least one passive_voice finding, so analyze on that
\* text returns at least one passive_voice style suggestion.
C11_ThrownIsPassive ==
    /\ (op.kind = "_analyze_style" /\ op.text = TextThrown) =>
          \E n \in DOMAIN op.style_suggestions :
             op.style_suggestions[n].category = "passive_voice"
    /\ (op.kind = "analyze" /\ op.text = TextThrown) =>
          \A r \in DOMAIN op.result :
             \E n \in DOMAIN op.result[r].style_suggestions :
                op.result[r].style_suggestions[n].category = "passive_voice"

\* where a whole word that starts at i, whitespace only, and the same whole
\* word again (letters compared without case) end: 0 when there is no such
\* occurrence at i
RepeatedWordEnd(text, i) ==
    IF ~IsWordStart(text, i) THEN 0
    ELSE LET ends ==
           UNION { { w + (a - i)
                     : w \in {w \in (a + 1)..Len(text) :
                                /\ IsWordChar(text[w])
                                /\ \A k \in a..(w - 1) : IsSpace(text[k])
                                /\ w + (a - i) - 1 <= Len(text)
                                /\ \A k \in 0..(a - i - 1) :
                                      LowerChar(text[w + k]) = LowerChar(text[i + k])
                                /\ IsWordStop(text, w + (a - i))} }
                   : a \in {a \in (i + 1)..Len(text) :
                              /\ IsSpace(text[a])
                              /\ \A k \in i..(a - 1) : IsWordChar(text[k])} }
         IN IF ends = {} THEN 0 ELSE Least(ends)

\* C12: the repeated-word detector emits exactly one repetition finding for
\* each left-to-right non-overlapping occurrence of a whole word followed,
\* after whitespace only, by the same whole word compared without case,
\* unless the word lowercased is very, far, long or many, and no other
\* finding; "The the cat sat on the mat." yields at least one and
\* "very very tired" yields none.
C12_RepeatedWords ==
    op.kind = "_analyze_style" =>
       \A text \in {op.text} :
       \A ends \in {[i \in 1..Len(text) |-> RepeatedWordEnd(text, i)]} :
       \A taken \in {NonOverlapping(ends)} :
       \A found \in {OfCategory(op.style_suggestions, "repetition")} :
          LET word(i) == lower(SubSeq(text, i, Least({a \in i..Len(text) : IsSpace(text[a])}) - 1))
              expected == {i \in taken :
                             word(i) \notin { <<"v","e","r","y">>, <<"f","a","r">>,
                                              <<"l","o","n","g">>, <<"m","a","n","y">> }}
          IN /\ Len(found) = Cardinality(expected)
             /\ {found[n].offset + 1 : n \in DOMAIN found} = expected
             /\ \A n \in DOMAIN found :
                   /\ found[n].length = ends[found[n].offset + 1] - (found[n].offset + 1)
                   /\ n > 1 => found[n - 1].offset < found[n].offset
             /\ text = TextRepeatedThe => Len(found) >= 1
             /\ text = TextVeryVery => found = << >>

\* a doubled word in another case is found, a doubled "very" is passed over
C12_Witness ==
    /\ op.kind = "_analyze_style"
    /\ op.text = <<"t","h","e"," ","T","h","e">>
    /\ Len(OfCategory(op.style_suggestions, "repetition")) = 1
    /\ OfCategory(op.style_suggestions, "repetition")[1].offset = 0
    /\ OfCategory(op.style_suggestions, "repetition")[1].length = 7

\* the number of whitespace-delimited words of a string
WordsIn(s) ==
    Cardinality({i \in DOMAIN s : ~IsSpace(s[i]) /\ (i = 1 \/ IsSpace(s[i - 1]))})

\* C13: the long-sentence detector emits exactly one sentence_length finding
\* for each sentence of the tokenizer that has more than 30 whitespace-
\* delimited words, in their order, and none for a sentence of 30 words or
\* fewer; a text that is one sentence of 31 or more words yields exactly one.
C13_LongSentences ==
    op.kind = "_analyze_style" =>
       \A sentences \in {sent_tokenize(op.text)} :
       \A found \in {OfCategory(op.style_suggestions, "sentence_length")} :
       \A long \in {SelectSeq(sentences, LAMBDA s : WordsIn(s) > 30)} :
          /\ Len(found) = Len(long)
          /\ \A n \in DOMAIN found : found[n].length = Len(long[n])
          /\ (Len(sentences) = 1 /\ WordsIn(sentences[1]) >= 31) => Len(found) = 1

\* a sentence of 30 words and one of 31: only the second is reported
C13_Witness ==
    /\ op.kind = "_analyze_style"
    /\ op.text = SentenceOf(30) \o <<" ">> \o SentenceOf(31)
    /\ Len(OfCategory(op.style_suggestions, "sentence_length")) = 1
    /\ OfCategory(op.style_suggestions, "sentence_length")[1].length = Len(SentenceOf(31))

\* where the phrase, as whole words and compared without case, occurs at i
WholePhraseEnd(text, i, phrase) ==
    IF /\ i + Len(phrase) - 1 <= Len(text)
       /\ \A k \in 1..Len(phrase) : LowerChar(text[i + k - 1]) = phrase[k]
       /\ (i = 1 \/ ~IsWordChar(text[i - 1]))
       /\ IsWordStop(text, i + Len(phrase))
    THEN i + Len(phrase) ELSE 0

\* C14: for each of the nine wordy phrases, every non-overlapping whole-word
\* occurrence of the phrase, compared without case, yields exactly one
\* wordiness finding whose suggestion is the replacement of that phrase,
\* whose message names that replacement and whose original is the matched
\* text; "At this point in time, we need to make a decision." yields a
\* wordiness finding with suggestion "now".
C14_WordyPhrases ==
    op.kind = "_analyze_style" =>
       \A text \in {op.text} :
       \A found \in {OfCategory(op.style_suggestions, "wordiness")} :
       \A expected \in {
            UNION { { [offset |-> i - 1, length |-> Len(wordy_phrases[p].phrase),
                       suggestion |-> wordy_phrases[p].replacement]
                      : i \in NonOverlapping([i \in 1..Len(text) |->
                                 WholePhraseEnd(text, i, wordy_phrases[p].phrase)]) }
                    : p \in DOMAIN wordy_phrases } } :
          /\ Len(wordy_phrases) = 9
          /\ Len(found) = Cardinality(expected)
          /\ { [offset |-> found[n].offset, length |-> found[n].length,
                suggestion |-> found[n].suggestion] : n \in DOMAIN found } = expected
          /\ \A n \in DOMAIN found :
                /\ found[n].original
                      = [k \in 1..found[n].length |-> text[found[n].offset + k]]
                /\ \E k \in DOMAIN found[n].message :
                      /\ k + Len(found[n].suggestion) - 1 <= Len(found[n].message)
                      /\ SubSeq(found[n].message, k, k + Len(found[n].suggestion) - 1)
                            = found[n].suggestion
          /\ text = TextWordy =>
                \E n \in DOMAIN found :
                   found[n].offset = 0 /\ found[n].suggestion = <<"n","o","w">>

\* the phrase of the tests, with a capital letter and a comma after it
C14_Witness ==
    /\ op.kind = "_analyze_style"
    /\ op.text = TextWordy
    /\ Len(OfCategory(op.style_suggestions, "wordiness")) = 1
    /\ OfCategory(op.style_suggestions, "wordiness")[1].suggestion = <<"n","o","w">>
    /\ OfCategory(op.style_suggestions, "wordiness")[1].length = 21

\* where a whole-word be-verb that starts at i, whitespace, and a word that
\* ends in the two letters of suffix with at least one character before
\* them end (letters compared without case): 0 when there is none at i
PassiveConstructionEnd(text, i, suffix) ==
    IF ~IsWordStart(text, i) THEN 0
    ELSE LET ends ==
           UNION { UNION { {e \in (w + 3)..(Len(text) + 1) :
                              /\ IsWordStop(text, e)
                              /\ \A k \in w..(e - 1) : IsWordChar(text[k])
                              /\ LowerChar(text[e - 2]) = suffix[1]
                              /\ LowerChar(text[e - 1]) = suffix[2]}
                           : w \in {w \in (a + 1)..Len(text) :
                                      /\ IsWordChar(text[w])
                                      /\ \A k \in a..(w - 1) : IsSpace(text[k])} }
                   : a \in {a \in (i + 1)..Len(text) :
                              /\ IsSpace(text[a])
                              /\ \A k \in i..(a - 1) : IsWordChar(text[k])
                              /\ [k \in 1..(a - i) |-> LowerChar(text[i + k - 1])]
                                    \in { <<"a","m">>, <<"i","s">>, <<"a","r","e">>,
                                          <<"w","a","s">>, <<"w","e","r","e">>,
                                          <<"b","e">>, <<"b","e","e","n">>,
                                          <<"b","e","i","n","g">> }} }
         IN IF ends = {} THEN 0 ELSE Least(ends)

\* an analyze that op records answered as the first analyze of the same
\* text under the same capability responses did: it raised the same or
\* returned an AnalysisResult with the same fields, each with the same value
SameAsFirst ==
    op.kind = "analyze" =>
       \A h \in Remembered(op.text, op.chk, op.fre) :
          /\ op.exc = h.exc
          /\ Len(op.result) = Len(h.result)
          /\ \A n \in DOMAIN op.result :
                /\ DOMAIN op.result[n] = DOMAIN h.result[n]
                /\ \A field \in DOMAIN op.result[n] :
                      op.result[n][field] = h.result[n][field]

\* C15: on one GrammarChecker, with the capabilities answering a text as
\* they did before, analyze(text) returns an AnalysisResult equal field by
\* field to the one it returned the first time (and raises if it raised
\* then), after any sequence of analyze and correct_text calls on other
\* texts or on the same one; and neither call changes an attribute of the
\* checker (self.tool, self.passive_voice_patterns), the only state a
\* later call reads.
C15_DeterministicAndStateless ==
    /\ []SameAsFirst
    /\ [][checker' = checker]_vars

\* a text with a passive construction analyzed again, under the same
\* capability responses, right after a call on another text: the
\* AnalysisResult has the passive_voice finding it had the first time
C15_Witness ==
    /\ op.kind = "analyze"
    /\ op.again
    /\ op.after_other
    /\ op.exc = "None"
    /\ \E n \in DOMAIN op.result[1].style_suggestions :
          op.result[1].style_suggestions[n].category = "passive_voice"
    /\ \E h \in Remembered(op.text, op.chk, op.fre) : h.result = op.result
    /\ checker = fixture

\* C16 as stated: the passive-voice detector emits a passive_voice finding
\* exactly for each occurrence of a whole-word be-verb followed by
\* whitespace and by a word ending in "ed" or "en" with at least one
\* character before the ending, with the span of the occurrence as offset
\* and length and its text as original, and no other finding.
C16_EveryPassiveConstruction ==
    op.kind = "_analyze_style" =>
       \A text \in {op.text} :
       \A found \in {OfCategory(op.style_suggestions, "passive_voice")} :
       \A expected \in {
            UNION { { [offset |-> i - 1,
                       length |-> PassiveConstructionEnd(text, i, suffix) - i]
                      : i \in {i \in 1..Len(text) :
                                 PassiveConstructionEnd(text, i, suffix) # 0} }
                    : suffix \in { <<"e","d">>, <<"e","n">> } } } :
          /\ Len(found) = Cardinality(expected)
          /\ { [offset |-> found[n].offset, length |-> found[n].length]
               : n \in DOMAIN found } = expected
          /\ \A n \in DOMAIN found :
                found[n].original
                   = [k \in 1..found[n].length |-> text[found[n].offset + k]]

\* C16, amended: for each of the two endings the occurrences are taken left
\* to right without overlap, so an occurrence whose be-verb is the second
\* word of an occurrence already taken for the same ending gets no finding;
\* the findings of "ed" come before those of "en", each in text order.
C16_PassiveMatches ==
    op.kind = "_analyze_style" =>
       \A text \in {op.text} :
       \A found \in {OfCategory(op.style_suggestions, "passive_voice")} :
       \A ed \in {[i \in 1..Len(text) |-> PassiveConstructionEnd(text, i, <<"e","d">>)]} :
       \A en \in {[i \in 1..Len(text) |-> PassiveConstructionEnd(text, i, <<"e","n">>)]} :
       \A taken_ed \in {NonOverlapping(ed)}, taken_en \in {NonOverlapping(en)} :
          LET n_ed == Cardinality(taken_ed) IN
          /\ Len(found) = n_ed + Cardinality(taken_en)
          /\ {found[n].offset + 1 : n \in 1..n_ed} = taken_ed
          /\ {found[n].offset + 1 : n \in (n_ed + 1)..Len(found)} = taken_en
          /\ \A n \in DOMAIN found :
                /\ found[n].length
                      = (IF n <= n_ed THEN ed ELSE en)[found[n].offset + 1]
                           - (found[n].offset + 1)
                /\ found[n].original
                      = [k \in 1..found[n].length |-> text[found[n].offset + k]]
                /\ (n > 1 /\ n # n_ed + 1) => found[n - 1].offset < found[n].offset

\* "is been taken": "is been" is reported, "been taken" is not
C16_Witness ==
    /\ op.kind = "_analyze_style"
    /\ op.text = TextChained
    /\ Len(OfCategory(op.style_suggestions, "passive_voice")) = 1
    /\ OfCategory(op.style_suggestions, "passive_voice")[1].offset = 0
    /\ OfCategory(op.style_suggestions, "passive_voice")[1].length = 7

\* C17: style_suggestions holds all passive_voice findings, then all
\* wordiness findings, then all sentence_length findings, then all
\* repetition findings; nothing sorts them by text position, so a finding
\* of an earlier detector stays before one of a later detector whose offset
\* is smaller.
C17_DetectorOrder ==
    /\ op.kind \in {"_analyze_style", "analyze"} =>
          \A found \in (IF op.kind = "analyze"
                        THEN {op.result[r].style_suggestions : r \in DOMAIN op.result}
                        ELSE {op.style_suggestions}) :
             LET rank(s) == CASE s.category = "passive_voice"   -> 1
                              [] s.category = "wordiness"       -> 2
                              [] s.category = "sentence_length" -> 3
                              [] s.category = "repetition"      -> 4
                              [] OTHER                          -> 0
             IN /\ \A n \in DOMAIN found : rank(found[n]) # 0
                /\ \A m, n \in DOMAIN found : m < n => rank(found[m]) <= rank(found[n])
    /\ (op.kind = "_analyze_style" /\ op.text = TextRepeatThenPassive) =>
          /\ Len(op.style_suggestions) = 2
          /\ op.style_suggestions[1].category = "passive_voice"
          /\ op.style_suggestions[2].category = "repetition"
          /\ op.style_suggestions[1].offset > op.style_suggestions[2].offset

\* a passive construction after a repetition: the passive finding is first
C17_Witness ==
    /\ op.kind = "_analyze_style"
    /\ op.text = TextRepeatThenPassive
    /\ Len(op.style_suggestions) = 2
    /\ op.style_suggestions[1].offset = 4
    /\ op.style_suggestions[2].offset = 0

\* C18 as stated: no two entries of style_suggestions have the same
\* (offset, length) span, also when two detectors match the same stretch.
C18_NoDuplicateSpan ==
    op.kind \in {"_analyze_style", "analyze"} =>
       \A found \in (IF op.kind = "analyze"
                     THEN {op.result[r].style_suggestions : r \in DOMAIN op.result}
                     ELSE {op.style_suggestions}) :
          \A m, n \in DOMAIN found :
             m # n => <<found[m].offset, found[m].length>>
                         # <<found[n].offset, found[n].length>>

\* the 0-based start of each sentence of the tokenizer: the first one starts
\* with the text, every other one at the first non-space after the one before
RECURSIVE SentenceStarts(_, _, _, _)
SentenceStarts(text, sentences, k, from) ==
    IF k > Len(sentences) THEN << >>
    ELSE LET start == IF k = 1 THEN 1 ELSE SpaceEnd(text, from) IN
         << start - 1 >> \o SentenceStarts(text, sentences, k + 1,
                                           start + Len(sentences[k]))

\* C19 as stated: the offset of every sentence_length finding is a valid
\* index into the text (0 <= offset, offset + length <= len(text)) and is
\* the start of the flagged sentence where the tokenizer found it, also
\* when a sentence occurs more than once and whatever whitespace lies
\* before or between the sentences; no two flagged sentences share an offset.
C19_SentenceOffsets ==
    op.kind = "_analyze_style" =>
       \A text \in {op.text} :
       \A sentences \in {sent_tokenize(text)} :
       \A starts \in {SentenceStarts(text, sentences, 1, 1)} :
       \A found \in {OfCategory(op.style_suggestions, "sentence_length")} :
          LET long == {k \in DOMAIN sentences : WordsIn(sentences[k]) > 30}
              nth(n) == CHOOSE k \in long : Cardinality({j \in long : j < k}) = n - 1
          IN /\ Len(found) = Cardinality(long)
             /\ \A n \in DOMAIN found :
                   /\ 0 <= found[n].offset
                   /\ found[n].offset + found[n].length <= Len(text)
                   /\ found[n].offset = starts[nth(n)]
             /\ \A m, n \in DOMAIN found : m # n => found[m].offset # found[n].offset

====
